---------------------------- MODULE Spec2Model ----------------------------
(***************************************************************************)
(* Multi-round authentication state table (src/main/state.c) and the       *)
(* TACACS+ request state machine that drives it                            *)
(* (src/modules/proto_tacacs/proto_tacacs.c).                              *)
(*                                                                         *)
(* Entries are heap objects named by handles 1..MaxEntries; the expiry     *)
(* list is modelled by the prev/next fields of the entries and by the head *)
(* and tail fields of the tree object, as in the C code, so that unlinking *)
(* an entry twice does what the pointer code does.  The rbtree is the set  *)
(* of handles it holds, keyed by the State value.  rad_assert is compiled  *)
(* out (release build).  An access to freed memory is undefined behaviour: *)
(* the step that makes it either aborts the process (crashed) or goes on   *)
(* with the stale contents of the freed object.                            *)
(***************************************************************************)
EXTENDS Integers, Sequences, FiniteSets, TLC

\* ------------------------------------------------------------------ bounds
NumWorkers == 2      \* worker threads of the concurrent specification
FairRequests == 1    \* requests ever received when termination is checked
MaxEntries == 3      \* state entries ever allocated, one thread
MaxRequests == 3     \* requests (and session-state arenas) ever set up
MaxClock == 2        \* last value of time(NULL), one thread
ConcRequests == 2    \* requests ever set up, concurrent threads or TACACS+
ConcEntries == 2     \* state entries ever allocated, concurrent threads or
                     \* TACACS+
ConcClock == 1       \* last value of time(NULL), concurrent threads
MaxToken == 2        \* distinct State values
MaxSessions == 2     \* main_config max_sessions given to fr_state_tree_init
Timeout == 1         \* timeout given to fr_state_tree_init
CapSessions == 2     \* max_sessions of the capacity scenario
MaxAllocFail == 1    \* talloc_zero failures injected

NULL == 0
SeqWrap == 253       \* the sequence number that cannot continue

Max(a, b) == IF a > b THEN a ELSE b

\* The handles of the model, wide enough for every scenario below
Workers == 1..Max(NumWorkers, CapSessions + 1)
Tokens == 1..Max(MaxToken, Max(CapSessions + 1, MaxSessions + 3))
EntryIds == 1..Max(MaxEntries, Max(CapSessions, MaxSessions) + 1)
Arenas == 1..Max(MaxRequests, Max(CapSessions + 1, MaxSessions + 3))

VARIABLES
    clock,          \* time(NULL)
    max_sessions,   \* fr_state_tree_t.max_sessions
    timeout,        \* fr_state_tree_t.timeout
    next_id,        \* fr_state_tree_t.id
    tree,           \* fr_state_tree_t.tree: the entries in the rbtree
    head, tail,     \* fr_state_tree_t.head, .tail
    mutex,          \* fr_state_tree_t.mutex: the worker holding it, or NULL
    ent,            \* heap: the fr_state_entry_t behind each handle
    nalloc,         \* entries allocated so far
    released,       \* talloc_free calls made on each entry
    arena_freed,    \* talloc_free calls made on each state_ctx
    nreq,           \* requests set up so far
    alloc_fails,    \* talloc_zero failures so far
    active,         \* the worker threads that run
    lim,            \* the bounds of the run: requests, entries, clock, tokens,
                    \* alloc_fails, history
    pc,             \* where each worker is
    req,            \* the REQUEST each worker is processing
    loc,            \* the locals of the state.c call each worker is in
    result,         \* what the last state.c call of each worker returned
    crashed,        \* the process aborted on undefined behaviour
    hist            \* history: the last lim.history calls of state.c that
                    \* returned, oldest first

table_vars == <<next_id, tree, head, tail, ent, nalloc, released, arena_freed>>
vars == <<clock, max_sessions, timeout, next_id, tree, head, tail, mutex, ent,
          nalloc, released, arena_freed, nreq, alloc_fails, active, lim, pc,
          req, loc, result, crashed, hist>>

\* ------------------------------------------------------------- the heap
\* talloc_zero(NULL, fr_state_entry_t)
ZeroEntry ==
    [id |-> 0, state |-> NULL, cleanup |-> 0, prev |-> NULL, next |-> NULL,
     tries |-> 0, ctx |-> NULL, vps |-> NULL, data |-> NULL]

\* The table and heap as one value, threaded through the statements of a
\* critical section.  fh and fn are state_entry_create's free_head and
\* free_next (fn = NULL stands for &free_head, fn = e for &e->next); ub is
\* set when a statement touched freed memory.
TableState(fh, fn) ==
    [head |-> head, tail |-> tail, tree |-> tree, ent |-> ent,
     rel |-> released, afree |-> arena_freed, fh |-> fh, fn |-> fn,
     ub |-> FALSE, segv |-> FALSE]

Freed(S, e) == e # NULL /\ S.rel[e] > 0

\* state_entry_cmp: memcmp of the two State values
state_entry_cmp(a, b) ==
    IF a.state < b.state THEN -1 ELSE IF a.state > b.state THEN 1 ELSE 0

\* rbtree_finddata: the node comparing equal to the key, or NULL
rbtree_finddata(S, key) ==
    LET hit == {x \in S.tree : state_entry_cmp(S.ent[x], key) = 0}
    IN  IF hit = {} THEN NULL ELSE CHOOSE x \in hit : TRUE

\* rbtree_insert without RBTREE_FLAG_REPLACE: refuses a key already present
rbtree_insert(S, e) ==
    IF rbtree_finddata(S, S.ent[e]) # NULL
    THEN [ok |-> FALSE, S |-> S]
    ELSE [ok |-> TRUE, S |-> [S EXCEPT !.tree = @ \cup {e}]]

\* rbtree_deletebydata: finds the node by the key of the data, deletes it
rbtree_deletebydata(S, e) ==
    [S EXCEPT !.tree = @ \ {x \in S.tree : state_entry_cmp(S.ent[x], S.ent[e]) = 0}]

\* rbtree_num_elements
rbtree_num_elements(S) == Cardinality(S.tree)

\* state_entry_unlink without its rbtree_deletebydata
state_entry_unlink_list_only(S, e) ==
    LET prev == S.ent[e].prev
        next == S.ent[e].next
        ent1 == IF prev # NULL THEN [S.ent EXCEPT ![prev].next = next] ELSE S.ent
        head1 == IF prev = NULL /\ S.head # NULL THEN next ELSE S.head
        ent2 == IF next # NULL THEN [ent1 EXCEPT ![next].prev = prev] ELSE ent1
        tail1 == IF next = NULL /\ S.tail # NULL THEN prev ELSE S.tail
        ent3 == [ent2 EXCEPT ![e].next = NULL, ![e].prev = NULL]
    IN  [S EXCEPT !.ent = ent3, !.head = head1, !.tail = tail1]

\* state_entry_unlink, with rad_assert compiled out
state_entry_unlink(S, e) ==
    LET prev == S.ent[e].prev
        next == S.ent[e].next
        ent1 == IF prev # NULL THEN [S.ent EXCEPT ![prev].next = next] ELSE S.ent
        head1 == IF prev = NULL /\ S.head # NULL THEN next ELSE S.head
        ent2 == IF next # NULL THEN [ent1 EXCEPT ![next].prev = prev] ELSE ent1
        tail1 == IF next = NULL /\ S.tail # NULL THEN prev ELSE S.tail
        ent3 == [ent2 EXCEPT ![e].next = NULL, ![e].prev = NULL]
        S1 == [S EXCEPT !.ent = ent3, !.head = head1, !.tail = tail1,
                        !.ub = @ \/ Freed(S, e) \/ Freed(S, prev) \/ Freed(S, next)]
    IN  rbtree_deletebydata(S1, e)

\* talloc_free(entry) with its destructor _state_entry_free
state_entry_free(S, e) ==
    LET ctx == S.ent[e].ctx
    IN  [S EXCEPT !.rel[e] = @ + 1,
                  !.afree = IF ctx # NULL THEN [@ EXCEPT ![ctx] = @ + 1] ELSE @,
                  !.ent[e].ctx = NULL,
                  !.ub = @ \/ Freed(S, e)]

\* *free_next = entry
free_next_store(S, e) ==
    IF S.fn = NULL THEN [S EXCEPT !.fh = e]
    ELSE [S EXCEPT !.ent[S.fn].next = e, !.ub = @ \/ Freed(S, S.fn)]


\* ------------------------------------------------- state_entry_create
\* A loop over a corrupted list is cut after LoopFuel rounds (a hang, kept as
\* undefined behaviour).
LoopFuel == 2 * Cardinality(EntryIds) + 2

\* "Clean up old entries": the while loop of state_entry_create
RECURSIVE state_entry_create_reap(_, _, _)
state_entry_create_reap(S, now, fuel) ==
    IF S.head = NULL THEN S
    ELSE IF fuel = 0 THEN [S EXCEPT !.ub = TRUE]
    ELSE LET e == S.head
             S0 == [S EXCEPT !.ub = @ \/ Freed(S, e)]
         IN  IF S.ent[e].cleanup < now
             THEN LET S1 == state_entry_unlink(S0, e)
                      S2 == free_next_store(S1, e)
                  IN  state_entry_create_reap([S2 EXCEPT !.fn = e], now, fuel - 1)
             ELSE S0

\* state_entry_create_old that frees old at once, inside the critical section
state_entry_create_old_free_now(S, old) ==
    IF old = NULL THEN S
    ELSE IF S.ent[old].data = NULL
    THEN state_entry_free(state_entry_unlink(S, old), old)
    ELSE S

\* "Record the information from the old state" and unlink it when it holds
\* no request data
state_entry_create_old(S, old) ==
    IF old = NULL THEN S
    ELSE LET S0 == [S EXCEPT !.ub = @ \/ Freed(S, old)]
         IN  IF S.ent[old].data = NULL
             THEN free_next_store(state_entry_unlink(S0, old), old)
             ELSE S0

\* state_entry_create from its entry to PTHREAD_MUTEX_UNLOCK: reap, the
\* max_sessions check, the snapshot of old
state_entry_create_locked(S, now, old, maxs) ==
    LET R == state_entry_create_reap(S, now, LoopFuel)
    IN  IF rbtree_num_elements(R) >= maxs
        THEN [ok |-> FALSE, S |-> R, old_tries |-> 0, old_state |-> NULL]
        ELSE [ok |-> TRUE, S |-> state_entry_create_old(R, old),
              old_tries |-> IF old # NULL THEN R.ent[old].tries ELSE 0,
              old_state |-> IF old # NULL THEN R.ent[old].state ELSE NULL]

\* "Now free the unlinked entries": next is read before the entry is freed;
\* coming back to an entry already freed reads freed memory and frees it
\* again, after which the loop is taken to end.
RECURSIVE state_entry_create_free(_, _, _)
state_entry_create_free(S, e, fuel) ==
    IF e = NULL THEN S
    ELSE IF Freed(S, e) \/ fuel = 0 THEN state_entry_free(S, e)
    ELSE state_entry_create_free(state_entry_free(S, e), S.ent[e].next, fuel - 1)

\* The State value of the new entry and its tries: the reply's State when it
\* carries one, else random octets (rnd), with tries taken from old.
state_entry_create_token(vp, old, old_tries, rnd) ==
    IF vp # NULL
    THEN [state |-> vp, tries |-> 0]
    ELSE [state |-> rnd, tries |-> IF old # NULL THEN old_tries + 1 ELSE 0]

\* ------------------------------------------- the octets of a State value
\* AUTH_VECTOR_LEN octets, octet i of s being s[i + 1]
StateLen == 16
ZeroState == [i \in 1..StateLen |-> 0]

\* A packet without State attribute, where States are octets
NoState == <<>>

\* a ^ b on non-negative integers
RECURSIVE Xor(_, _)
Xor(a, b) ==
    IF a = 0 THEN b
    ELSE IF b = 0 THEN a
    ELSE (((a % 2) + (b % 2)) % 2) + 2 * Xor(a \div 2, b \div 2)

\* Conversion of an int to uint8_t
Octet(n) == n % 256

\* memcpy(entry->state + (i * 4), &x, sizeof(x)) for the word x = <<x0..x3>>
StoreWord(s, i, x) ==
    [k \in 1..StateLen |-> IF k > 4 * i /\ k <= 4 * i + 4 THEN x[k - 4 * i] ELSE s[k]]

\* The statements of state_entry_create that give the new entry its State
\* and tries, octet by octet.  vp is the State of the reply (NoState when it
\* has none), words the four values fr_rand returns, version the three octets of
\* HEXIFY(RADIUSD_VERSION) (high, mid, low), seed main_config.state_seed.
\* The result is the entry's state and tries and the State left on the reply.
state_entry_create_state(vp, old, old_state, old_tries, words, version, seed) ==
    IF vp # NoState
    THEN [state |-> vp, tries |-> 0, reply |-> vp]
    ELSE LET s0 == IF old # NULL THEN old_state ELSE ZeroState
             tries == IF old # NULL THEN old_tries + 1 ELSE 0
             s1 == [s0 EXCEPT ![1] = Octet(tries)]
             s2 == [s1 EXCEPT ![2] = Xor(s1[1], Octet(tries))]
             s3 == [s2 EXCEPT ![9] = Xor(s2[3], version[1])]
             s4 == [s3 EXCEPT ![11] = Xor(s3[3], version[2])]
             s5 == [s4 EXCEPT ![13] = Xor(s4[3], version[3])]
             r1 == StoreWord(s5, 0, words[1])
             r2 == StoreWord(r1, 1, words[2])
             r3 == StoreWord(r2, 2, words[3])
             r4 == StoreWord(r3, 3, words[4])
             s6 == IF seed < 256 THEN [r4 EXCEPT ![4] = seed] ELSE r4
         IN  [state |-> s6, tries |-> tries, reply |-> s6]

\* The values drawn for the octet-level run of state_entry_create: what
\* fr_rand may return, the state and tries of a prior entry, the State a
\* module may have put on the reply, HEXIFY(RADIUSD_VERSION), and
\* main_config.state_seed (256 and above: not configured)
RandWords == {<<0, 0, 0, 0>>, <<1, 2, 3, 4>>, <<255, 128, 7, 64>>}
OldStates == {ZeroState, [i \in 1..StateLen |-> 16 * i + 1]}
OldTries == {0, 1, 255}
ReplyStates == {NoState, [i \in 1..StateLen |-> 255 - i]}
Versions == {<<4, 0, 0>>, <<3, 1, 255>>}
Seeds == {5, 256}

\* "Link it to the end of the list"
state_entry_link(S, e) ==
    IF S.head = NULL
    THEN [S EXCEPT !.ent[e].prev = NULL, !.ent[e].next = NULL,
                   !.head = e, !.tail = e]
    ELSE IF S.tail = NULL THEN [S EXCEPT !.segv = TRUE]
    ELSE [S EXCEPT !.ent[e].prev = S.tail, !.ent[S.tail].next = e,
                   !.ent[e].next = NULL, !.tail = e,
                   !.ub = @ \/ Freed(S, S.tail)]

\* state_entry_create_insert without the second max_sessions check
state_entry_create_insert_unbounded(S, e, maxs) ==
    LET ins == rbtree_insert(S, e)
    IN  IF ~ins.ok
        THEN [ok |-> FALSE, S |-> state_entry_free(S, e)]
        ELSE [ok |-> TRUE, S |-> state_entry_link(ins.S, e)]

\* state_entry_create_insert with the result of rbtree_insert ignored
state_entry_create_insert_unchecked(S, e, maxs) ==
    IF rbtree_num_elements(S) >= maxs
    THEN [ok |-> FALSE, S |-> state_entry_free(S, e)]
    ELSE [ok |-> TRUE, S |-> state_entry_link([S EXCEPT !.tree = @ \cup {e}], e)]

\* state_entry_create after PTHREAD_MUTEX_LOCK: the second max_sessions
\* check, rbtree_insert, the link at the tail
state_entry_create_insert(S, e, maxs) ==
    IF rbtree_num_elements(S) >= maxs
    THEN [ok |-> FALSE, S |-> state_entry_free(S, e)]
    ELSE LET ins == rbtree_insert(S, e)
         IN  IF ~ins.ok
             THEN [ok |-> FALSE, S |-> state_entry_free(S, e)]
             ELSE [ok |-> TRUE, S |-> state_entry_link(ins.S, e)]

\* state_entry_find that falls back on the head of the list
state_entry_find_or_head(S, vp) ==
    LET e == IF vp = NULL THEN NULL ELSE rbtree_finddata(S, [state |-> vp])
    IN  IF e = NULL THEN S.head ELSE e

\* state_entry_find: the entry whose State is that of the packet; no State
\* on the packet finds nothing
state_entry_find(S, vp) ==
    IF vp = NULL THEN NULL ELSE rbtree_finddata(S, [state |-> vp])


\* ------------------------------------------------------ workers, requests
\* A REQUEST: the State attribute of its packet and of its reply, its
\* state_ctx, session-state attributes and persistable request data; then
\* what proto_tacacs reads and writes: the packet's type, session id and
\* sequence number, request_state, master_state = REQUEST_STOP_PROCESSING,
\* the status attribute of the reply, tacacs_running's local dv (set or
\* NULL), the send section pushed, the status seen by the termination
\* disposition, and whether tacacs_send sent the reply; then two records of
\* what happened to it: the state.c functions tacacs_running has called for
\* it, in order, and how it was last resumed after a yield ("run", "stopped"
\* when master_state was already REQUEST_STOP_PROCESSING, or "cancel")
NoRequest ==
    [packet |-> NULL, reply |-> NULL, state_ctx |-> NULL, state |-> NULL,
     data |-> NULL, type |-> "none", session_id |-> NULL, seq |-> NULL,
     request_state |-> "INIT", stop |-> FALSE, status |-> "absent",
     dv |-> FALSE, unlang |-> "none", disposition |-> "none", sent |-> FALSE,
     calls |-> <<>>, resumed |-> "no"]

LocInit ==
    [ret |-> "idle", now |-> 0, old |-> NULL, old_tries |-> 0,
     old_state |-> NULL, fh |-> NULL, entry |-> NULL, id |-> 0,
     data |-> NULL, old_ctx |-> NULL]

NoOp == [op |-> "none", ret |-> FALSE, tok |-> NULL, ctx |-> NULL,
         vps |-> NULL, data |-> NULL]

\* The history with op added, cut to its last lim.history calls
Remember(op) ==
    LET h == Append(hist, op)
    IN  IF Len(h) > lim.history THEN SubSeq(h, Len(h) - lim.history + 1, Len(h))
        ELSE h

\* The last call that returned
last_op == IF hist = <<>> THEN NoOp ELSE hist[Len(hist)]

InitWith(act, maxs, to, l) ==
    /\ clock = 0
    /\ max_sessions = maxs
    /\ timeout = to
    /\ next_id = 0
    /\ tree = {}
    /\ head = NULL
    /\ tail = NULL
    /\ mutex = NULL
    /\ ent = [e \in EntryIds |-> ZeroEntry]
    /\ nalloc = 0
    /\ released = [e \in EntryIds |-> 0]
    /\ arena_freed = [a \in Arenas |-> 0]
    /\ nreq = 0
    /\ alloc_fails = 0
    /\ active = act
    /\ lim = l
    /\ pc = [w \in Workers |-> "idle"]
    /\ req = [w \in Workers |-> NoRequest]
    /\ loc = [w \in Workers |-> LocInit]
    /\ result = [w \in Workers |-> "none"]
    /\ crashed = FALSE
    /\ hist = <<>>

Running(w, at) == ~crashed /\ w \in active /\ pc[w] = at

Commit(S) ==
    /\ head' = S.head
    /\ tail' = S.tail
    /\ tree' = S.tree
    /\ ent' = S.ent
    /\ released' = S.rel
    /\ arena_freed' = S.afree

\* The process aborts: nothing else changes
Abort ==
    /\ crashed' = TRUE
    /\ UNCHANGED <<clock, max_sessions, timeout, next_id, tree, head, tail,
                   mutex, ent, nalloc, released, arena_freed, nreq,
                   alloc_fails, active, lim, pc, req, loc, result, hist>>

\* The call returns val to its caller
Return(w, val, op) ==
    /\ pc' = [pc EXCEPT ![w] = loc[w].ret]
    /\ result' = [result EXCEPT ![w] = val]
    /\ loc' = [loc EXCEPT ![w] = LocInit]
    /\ hist' = Remember(op)

Goto(w, to) == pc' = [pc EXCEPT ![w] = to]

\* ------------------------------------------------- fr_request_to_state
\* request_data_by_persistance, the early return, PTHREAD_MUTEX_LOCK
fr_request_to_state_enter(w) ==
    /\ Running(w, "r2s_enter")
    /\ LET data == req[w].data
       IN  IF req[w].state # NULL /\ data = NULL
           THEN /\ Return(w, "true",
                          [op |-> "save", ret |-> TRUE, tok |-> req[w].reply,
                           ctx |-> req[w].state_ctx, vps |-> req[w].state,
                           data |-> NULL])
                /\ UNCHANGED <<mutex, req>>
           ELSE /\ mutex = NULL
                /\ mutex' = w
                /\ req' = [req EXCEPT ![w].data = NULL]
                /\ loc' = [loc EXCEPT ![w].data = data]
                /\ Goto(w, "r2s_locked")
                /\ UNCHANGED <<result, hist>>
    /\ UNCHANGED <<clock, max_sessions, timeout, table_vars, nreq,
                   alloc_fails, active, lim, crashed>>

\* state_entry_find(original), then state_entry_create up to its
\* PTHREAD_MUTEX_UNLOCK; on NULL the caller unlocks and returns false
fr_request_to_state_create(w) ==
    /\ Running(w, "r2s_locked")
    /\ LET S0 == TableState(NULL, NULL)
           old == state_entry_find(S0, req[w].packet)
           r == state_entry_create_locked(S0, clock, old, max_sessions)
       IN  \/ /\ r.S.ub
              /\ Abort
           \/ /\ Commit(r.S)
              /\ mutex' = NULL
              /\ crashed' = crashed
              /\ IF r.ok
                 THEN /\ loc' = [loc EXCEPT ![w].now = clock, ![w].old = old,
                                            ![w].old_tries = r.old_tries,
                                            ![w].old_state = r.old_state,
                                            ![w].fh = r.S.fh]
                      /\ Goto(w, "create_unlocked")
                      /\ UNCHANGED <<result, hist>>
                 ELSE Return(w, "false",
                             [NoOp EXCEPT !.op = "save", !.tok = req[w].reply])
              /\ UNCHANGED <<clock, max_sessions, timeout, next_id, nalloc,
                             nreq, alloc_fails, active, lim, req>>

\* The free loop, talloc_zero, and the read of state->id, all without the
\* mutex
state_entry_create_alloc(w) ==
    /\ Running(w, "create_unlocked")
    /\ LET S == state_entry_create_free(TableState(loc[w].fh, NULL),
                                        loc[w].fh, LoopFuel)
       IN  \/ /\ S.ub
              /\ Abort
           \/ /\ Commit(S)
              /\ crashed' = crashed
              /\ \/ /\ nalloc < lim.entries
                    /\ nalloc' = nalloc + 1
                    /\ loc' = [loc EXCEPT ![w].entry = nalloc + 1,
                                          ![w].id = next_id, ![w].fh = NULL]
                    /\ Goto(w, "create_init")
                    /\ UNCHANGED alloc_fails
                 \/ /\ alloc_fails < lim.alloc_fails
                    /\ alloc_fails' = alloc_fails + 1
                    /\ loc' = [loc EXCEPT ![w].fh = NULL]
                    /\ Goto(w, "create_nomem")
                    /\ UNCHANGED nalloc
              /\ UNCHANGED <<clock, max_sessions, timeout, next_id, mutex,
                             nreq, active, lim, req, result, hist>>

\* talloc_zero failed and state_entry_create returns NULL without
\* PTHREAD_MUTEX_LOCK; the caller unlocks and returns false
state_entry_create_nomem_unlocked(w) ==
    /\ Running(w, "create_nomem")
    /\ mutex' = NULL
    /\ Return(w, "false", [NoOp EXCEPT !.op = "save", !.tok = req[w].reply])
    /\ UNCHANGED <<clock, max_sessions, timeout, table_vars, nreq,
                   alloc_fails, active, lim, req, crashed>>

\* talloc_zero failed: PTHREAD_MUTEX_LOCK, return NULL; the caller unlocks
\* and returns false
state_entry_create_nomem(w) ==
    /\ Running(w, "create_nomem")
    /\ mutex = NULL
    /\ Return(w, "false", [NoOp EXCEPT !.op = "save", !.tok = req[w].reply])
    /\ UNCHANGED <<clock, max_sessions, timeout, table_vars, mutex, nreq,
                   alloc_fails, active, lim, req, crashed>>

\* entry->id = state->id++ (the write), cleanup, the State value, the State
\* attribute of the reply, PTHREAD_MUTEX_LOCK
state_entry_create_init(w) ==
    /\ Running(w, "create_init")
    /\ mutex = NULL
    /\ \E rnd \in 1..lim.tokens :
         LET e == loc[w].entry
             tk == state_entry_create_token(req[w].reply, loc[w].old,
                                            loc[w].old_tries, rnd)
         IN  /\ ent' = [ent EXCEPT ![e].id = loc[w].id,
                                   ![e].cleanup = loc[w].now + timeout,
                                   ![e].state = tk.state,
                                   ![e].tries = tk.tries]
             /\ req' = [req EXCEPT ![w].reply = tk.state]
    /\ next_id' = loc[w].id + 1
    /\ mutex' = w
    /\ Goto(w, "create_relocked")
    /\ UNCHANGED <<clock, max_sessions, timeout, tree, head, tail, nalloc,
                   released, arena_freed, nreq, alloc_fails, active, lim, loc,
                   result, crashed, hist>>

\* fr_request_to_state_move that leaves the fields of the inserted entry
\* unset when the critical section ends
fr_request_to_state_move_unset(S, e, r, data) == [S |-> S, req |-> r]

\* state_entry_create from "entry->cleanup = now + state->timeout" to the
\* State attribute of the reply, with the State as octets
state_entry_create_generate(w) ==
    /\ Running(w, "create_state")
    /\ \E words \in [1..4 -> RandWords] :
         LET e == loc[w].entry
             r == state_entry_create_state(req[w].reply, loc[w].old,
                                           loc[w].old_state, loc[w].old_tries,
                                           words, lim.version, lim.state_seed)
         IN  /\ ent' = [ent EXCEPT ![e].cleanup = loc[w].now + timeout,
                                   ![e].state = r.state,
                                   ![e].tries = r.tries]
             /\ req' = [req EXCEPT ![w].reply = r.reply]
    /\ Goto(w, "create_stated")
    /\ UNCHANGED <<clock, max_sessions, timeout, next_id, tree, head, tail,
                   mutex, nalloc, released, arena_freed, nreq, alloc_fails,
                   active, lim, loc, result, crashed, hist>>

\* entry->ctx = request->state_ctx ... request->state = NULL
fr_request_to_state_move(S, e, r, data) ==
    [S |-> [S EXCEPT !.ent[e].ctx = r.state_ctx, !.ent[e].vps = r.state,
                     !.ent[e].data = data],
     req |-> [r EXCEPT !.state_ctx = NULL, !.state = NULL]]

\* The rest of state_entry_create and of fr_request_to_state
fr_request_to_state_finish(w) ==
    /\ Running(w, "create_relocked")
    /\ LET e == loc[w].entry
           r == state_entry_create_insert(TableState(NULL, NULL), e, max_sessions)
           m == fr_request_to_state_move(r.S, e, req[w], loc[w].data)
       IN  \/ /\ r.S.ub \/ r.S.segv
              /\ Abort
           \/ /\ ~r.S.segv
              /\ crashed' = crashed
              /\ mutex' = NULL
              /\ IF r.ok
                 THEN /\ Commit(m.S)
                      /\ req' = [req EXCEPT ![w] = m.req]
                      /\ Return(w, "true",
                                [op |-> "save", ret |-> TRUE,
                                 tok |-> req[w].reply,
                                 ctx |-> req[w].state_ctx,
                                 vps |-> req[w].state, data |-> loc[w].data])
                 ELSE /\ Commit(r.S)
                      /\ req' = req
                      /\ Return(w, "false",
                                [NoOp EXCEPT !.op = "save", !.tok = req[w].reply])
              /\ UNCHANGED <<clock, max_sessions, timeout, next_id, nalloc,
                             nreq, alloc_fails, active, lim>>


\* ---------------------------------------------------- fr_state_discard
\* PTHREAD_MUTEX_LOCK
fr_state_discard_enter(w) ==
    /\ Running(w, "dis_enter")
    /\ mutex = NULL
    /\ mutex' = w
    /\ Goto(w, "dis_locked")
    /\ UNCHANGED <<clock, max_sessions, timeout, table_vars, nreq,
                   alloc_fails, active, lim, req, loc, result, crashed, hist>>

\* state_entry_find(original); a miss unlocks and returns; a hit is unlinked
fr_state_discard_unlink(w) ==
    /\ Running(w, "dis_locked")
    /\ LET S0 == TableState(NULL, NULL)
           e == state_entry_find(S0, req[w].packet)
           S == state_entry_unlink(S0, e)
       IN  IF e = NULL
           THEN /\ mutex' = NULL
                /\ Return(w, "none",
                          [NoOp EXCEPT !.op = "discard", !.tok = req[w].packet])
                /\ UNCHANGED <<table_vars, crashed>>
           ELSE \/ /\ S.ub
                   /\ Abort
                \/ /\ Commit(S)
                   /\ mutex' = NULL
                   /\ loc' = [loc EXCEPT ![w].entry = e]
                   /\ Goto(w, "dis_unlocked")
                   /\ UNCHANGED <<next_id, nalloc, result, crashed, hist>>
    /\ UNCHANGED <<clock, max_sessions, timeout, nreq, alloc_fails, active, lim, req>>

\* TALLOC_FREE(entry); request->state = NULL; request->state_ctx = NULL
fr_state_discard_free(w) ==
    /\ Running(w, "dis_unlocked")
    /\ LET S == state_entry_free(TableState(NULL, NULL), loc[w].entry)
       IN  \/ /\ S.ub
              /\ Abort
           \/ /\ Commit(S)
              /\ req' = [req EXCEPT ![w].state = NULL, ![w].state_ctx = NULL]
              /\ Return(w, "none",
                        [NoOp EXCEPT !.op = "discard", !.ret = TRUE,
                                     !.tok = req[w].packet])
              /\ UNCHANGED <<clock, max_sessions, timeout, next_id, mutex,
                             nalloc, nreq, alloc_fails, active, lim, crashed>>

\* -------------------------------------------------- fr_state_to_request
\* "No State, don't do anything", else PTHREAD_MUTEX_LOCK
fr_state_to_request_enter(w) ==
    /\ Running(w, "s2r_enter")
    /\ IF req[w].packet = NULL
       THEN /\ Return(w, "none", [NoOp EXCEPT !.op = "restore"])
            /\ UNCHANGED mutex
       ELSE /\ mutex = NULL
            /\ mutex' = w
            /\ Goto(w, "s2r_locked")
            /\ UNCHANGED <<loc, result, hist>>
    /\ UNCHANGED <<clock, max_sessions, timeout, table_vars, nreq,
                   alloc_fails, active, lim, req, crashed>>

\* fr_state_to_request_swap that leaves the entry's ctx, vps and data set
fr_state_to_request_copy(S, e, r) ==
    [S |-> S,
     req |-> [r EXCEPT !.state_ctx = S.ent[e].ctx, !.state = S.ent[e].vps,
                       !.data = S.ent[e].data],
     old_ctx |-> r.state_ctx]

\* fr_state_to_request_swap that keeps the request's own state_ctx when the
\* entry has none
fr_state_to_request_keep(S, e, r) ==
    [S |-> [S EXCEPT !.ent[e].ctx = NULL, !.ent[e].vps = NULL,
                     !.ent[e].data = NULL],
     req |-> [r EXCEPT !.state_ctx = IF S.ent[e].ctx = NULL THEN @ ELSE S.ent[e].ctx,
                       !.state = S.ent[e].vps, !.data = S.ent[e].data],
     old_ctx |-> IF S.ent[e].ctx = NULL THEN NULL ELSE r.state_ctx]

\* The body of "if (entry)": the entry's ctx, vps and data go to the request
fr_state_to_request_swap(S, e, r) ==
    [S |-> [S EXCEPT !.ent[e].ctx = NULL, !.ent[e].vps = NULL,
                     !.ent[e].data = NULL],
     req |-> [r EXCEPT !.state_ctx = S.ent[e].ctx, !.state = S.ent[e].vps,
                       !.data = S.ent[e].data],
     old_ctx |-> r.state_ctx]

\* state_entry_find(packet), the move, PTHREAD_MUTEX_UNLOCK
fr_state_to_request_move(w) ==
    /\ Running(w, "s2r_locked")
    /\ LET S0 == TableState(NULL, NULL)
           e == state_entry_find(S0, req[w].packet)
           m == fr_state_to_request_swap(S0, e, req[w])
       IN  IF e = NULL
           THEN UNCHANGED <<table_vars, req, loc>>
           ELSE /\ Commit(m.S)
                /\ req' = [req EXCEPT ![w] = m.req]
                /\ loc' = [loc EXCEPT ![w].old_ctx = m.old_ctx, ![w].entry = e]
                /\ UNCHANGED <<next_id, nalloc>>
    /\ mutex' = NULL
    /\ Goto(w, "s2r_unlocked")
    /\ UNCHANGED <<clock, max_sessions, timeout, nreq, alloc_fails, active, lim,
                   result, crashed, hist>>

\* if (old_ctx) talloc_free(old_ctx), outside of the mutex
fr_state_to_request_free(w) ==
    /\ Running(w, "s2r_unlocked")
    /\ arena_freed' = IF loc[w].old_ctx # NULL
                      THEN [arena_freed EXCEPT ![loc[w].old_ctx] = @ + 1]
                      ELSE arena_freed
    /\ Return(w, "none",
              [NoOp EXCEPT !.op = "restore", !.ret = loc[w].entry # NULL,
                           !.tok = req[w].packet])
    /\ UNCHANGED <<clock, max_sessions, timeout, next_id, tree, head, tail,
                   mutex, ent, nalloc, released, nreq, alloc_fails, active, lim,
                   req, crashed>>

\* ------------------------------------------- the callers of state.c
\* A request is set up with a fresh session-state ctx; its packet may carry
\* a State attribute
request_setup(w) ==
    /\ Running(w, "idle")
    /\ nreq < lim.requests
    /\ nreq' = nreq + 1
    /\ \E tok \in 0..lim.tokens :
         req' = [req EXCEPT ![w] = [NoRequest EXCEPT !.packet = tok,
                                                     !.state_ctx = nreq + 1]]
    /\ Goto(w, "new")
    /\ UNCHANGED <<clock, max_sessions, timeout, table_vars, mutex,
                   alloc_fails, active, lim, loc, result, crashed, hist>>

\* The caller restores the session-state first
call_fr_state_to_request(w) ==
    /\ Running(w, "new")
    /\ req[w].state = NULL
    /\ loc' = [loc EXCEPT ![w].ret = "restored"]
    /\ Goto(w, "s2r_enter")
    /\ UNCHANGED <<clock, max_sessions, timeout, table_vars, mutex, nreq,
                   alloc_fails, active, lim, req, result, crashed, hist>>

\* Workers between the call of fr_request_to_state and its talloc_zero
Allocating == {w \in Workers : pc[w] \in {"r2s_enter", "r2s_locked", "create_unlocked"}}

\* The policy has run: modules may have added session-state attributes and
\* persistable request data (both parented by state_ctx) and a State
\* attribute to the reply; the caller then saves the session-state
call_fr_request_to_state(w) ==
    /\ ~crashed /\ w \in active /\ pc[w] \in {"new", "restored"}
    /\ nalloc + Cardinality(Allocating) < lim.entries
    /\ \E v \in {req[w].state, req[w].state_ctx},
          d \in {req[w].data, req[w].state_ctx},
          r \in 0..lim.tokens :
         req' = [req EXCEPT ![w].state = v, ![w].data = d, ![w].reply = r]
    /\ loc' = [loc EXCEPT ![w].ret = "end"]
    /\ Goto(w, "r2s_enter")
    /\ UNCHANGED <<clock, max_sessions, timeout, table_vars, mutex, nreq,
                   alloc_fails, active, lim, result, crashed, hist>>

\* The first round of a new session: no State on the packet, the reply
\* carries a State of the session's own (as after proto_tacacs's state_add),
\* the policy may have left persistable request data; the session-state is
\* then saved
first_round(w) ==
    /\ Running(w, "idle")
    /\ nreq < lim.requests
    /\ nreq' = nreq + 1
    /\ \E d \in {NULL, nreq + 1} :
         req' = [req EXCEPT ![w] = [NoRequest EXCEPT !.reply = nreq + 1,
                                                     !.state_ctx = nreq + 1,
                                                     !.data = d]]
    /\ loc' = [loc EXCEPT ![w].ret = "end"]
    /\ Goto(w, "r2s_enter")
    /\ UNCHANGED <<clock, max_sessions, timeout, table_vars, mutex,
                   alloc_fails, active, lim, result, crashed, hist>>

\* The last round of a session: the packet carries a State, or none when it
\* could not be decoded; the caller discards the session-state without
\* restoring it
last_round(w) ==
    /\ Running(w, "idle")
    /\ nreq < lim.requests
    /\ nreq' = nreq + 1
    /\ \E tok \in 0..lim.tokens :
         req' = [req EXCEPT ![w] = [NoRequest EXCEPT !.packet = tok,
                                                     !.state_ctx = nreq + 1]]
    /\ loc' = [loc EXCEPT ![w].ret = "end"]
    /\ Goto(w, "dis_enter")
    /\ UNCHANGED <<clock, max_sessions, timeout, table_vars, mutex,
                   alloc_fails, active, lim, result, crashed, hist>>

\* The caller discards the session-state
call_fr_state_discard(w) ==
    /\ ~crashed /\ w \in active /\ pc[w] \in {"new", "restored"}
    /\ loc' = [loc EXCEPT ![w].ret = "end"]
    /\ Goto(w, "dis_enter")
    /\ UNCHANGED <<clock, max_sessions, timeout, table_vars, mutex, nreq,
                   alloc_fails, active, lim, req, result, crashed, hist>>

\* The request is freed, and its state_ctx with it
request_delete(w) ==
    /\ Running(w, "end")
    /\ arena_freed' = IF req[w].state_ctx # NULL
                      THEN [arena_freed EXCEPT ![req[w].state_ctx] = @ + 1]
                      ELSE arena_freed
    /\ req' = [req EXCEPT ![w] = NoRequest]
    /\ result' = [result EXCEPT ![w] = "none"]
    /\ Goto(w, "idle")
    /\ UNCHANGED <<clock, max_sessions, timeout, next_id, tree, head, tail,
                   mutex, ent, nalloc, released, nreq, alloc_fails, active, lim,
                   loc, crashed, hist>>

\* ------------------------------------------------------- proto_tacacs.c
PacketTypes == {"AUTHEN", "AUTHOR", "ACCT"}

\* rlm_rcode_t without RLM_MODULE_YIELD
Rcodes == {"REJECT", "FAIL", "OK", "HANDLED", "INVALID", "USERLOCK",
           "NOTFOUND", "NOOP", "UPDATED"}

\* TAC_PLUS_AUTHEN_STATUS_*: the five that end a conversation, and GETDATA
\* for those that continue it
TerminalStatus == {"Pass", "Fail", "Restart", "Error", "Follow"}
ContinueStatus == {"GetData"}

\* tacacs_status: the status attribute of the reply after the call
tacacs_status(type, rcode, status) ==
    CASE type = "AUTHEN" ->
           (CASE rcode = "OK" -> "Pass"
              [] rcode \in {"FAIL", "REJECT", "USERLOCK"} -> "Fail"
              [] rcode = "INVALID" -> "Error"
              [] OTHER -> status)
      [] type = "AUTHOR" ->
           (CASE rcode = "OK" -> "Pass-Repl"
              [] rcode \in {"FAIL", "REJECT", "USERLOCK"} -> "Fail"
              [] rcode = "INVALID" -> "Error"
              [] OTHER -> status)
      [] type = "ACCT" ->
           (CASE rcode = "OK" -> "Success"
              [] rcode \in {"FAIL", "REJECT", "USERLOCK", "INVALID"} -> "Error"
              [] OTHER -> status)
      [] OTHER -> status

\* state_add: the State value made of the listener and the session id
state_add(r) == r.session_id

\* What a policy section may have done to the request when
\* unlang_interpret_continue returns: set the status attribute of the reply,
\* add session-state attributes, leave persistable request data
Policy(r) ==
    {[r EXCEPT !.status = s, !.state = v, !.data = d] :
        s \in {r.status, "GetData", "Restart", "Follow"},
        v \in {r.state, r.state_ctx},
        d \in {r.data, r.state_ctx}}

\* What the tacacs_running steps leave alone besides pc, req and loc
TacacsFrame ==
    UNCHANGED <<clock, max_sessions, timeout, table_vars, mutex, nreq,
                alloc_fails, active, lim, result, crashed, hist>>

\* goto a label of tacacs_running with the request as r
TacacsGoto(w, r, to) ==
    /\ req' = [req EXCEPT ![w] = r]
    /\ Goto(w, to)
    /\ UNCHANGED loc

\* Call a function of state.c that returns to the label ret
TacacsCall(w, r, fn, ret) ==
    /\ req' = [req EXCEPT ![w] = [r EXCEPT !.calls = Append(@, fn)]]
    /\ Goto(w, fn)
    /\ loc' = [loc EXCEPT ![w].ret = ret]

\* stop_processing that calls fr_state_discard whatever the packet type
tacacs_running_stop_any(w, r) == TacacsCall(w, r, "dis_enter", "tac_done")

\* stop_processing that goes to done without fr_state_discard
tacacs_running_stop_none(w, r) == TacacsGoto(w, r, "tac_done")

\* stop_processing: fr_state_discard for authentication, then done
tacacs_running_stop(w, r) ==
    IF r.type = "AUTHEN" THEN TacacsCall(w, r, "dis_enter", "tac_done")
    ELSE TacacsGoto(w, r, "tac_done")

\* fr_heap_extract and request_delete: the request and its state_ctx go
tacacs_request_delete(w) ==
    /\ arena_freed' = IF req[w].state_ctx # NULL
                      THEN [arena_freed EXCEPT ![req[w].state_ctx] = @ + 1]
                      ELSE arena_freed
    /\ req' = [req EXCEPT ![w] = NoRequest]
    /\ result' = [result EXCEPT ![w] = "none"]
    /\ Goto(w, "idle")
    /\ UNCHANGED <<clock, max_sessions, timeout, next_id, tree, head, tail,
                   mutex, ent, nalloc, released, nreq, alloc_fails, active, lim,
                   loc, crashed, hist>>

\* A packet arrives on a listener and a REQUEST is queued for it; requests in
\* progress at the same time belong to different sessions
tacacs_arrive(w) ==
    /\ Running(w, "idle")
    /\ nreq < lim.requests
    /\ nreq' = nreq + 1
    /\ \E type \in PacketTypes, id \in 1..lim.tokens, seq \in {NULL, 1, SeqWrap} :
         /\ \A o \in Workers \ {w} : req[o].session_id # id
         /\ req' = [req EXCEPT ![w] = [NoRequest EXCEPT !.type = type,
                                                        !.session_id = id,
                                                        !.seq = seq,
                                                        !.state_ctx = nreq + 1]]
    /\ Goto(w, "tac_queued")
    /\ UNCHANGED <<clock, max_sessions, timeout, table_vars, mutex,
                   alloc_fails, active, lim, loc, result, crashed, hist>>

\* master_state is set to REQUEST_STOP_PROCESSING from outside
request_stop(w) ==
    /\ ~crashed /\ w \in active
    /\ pc[w] # "idle"
    /\ ~req[w].stop
    /\ req' = [req EXCEPT ![w].stop = TRUE]
    /\ UNCHANGED pc
    /\ UNCHANGED loc
    /\ TacacsFrame

\* tacacs_queued: FR_SIGNAL_RUN enters tacacs_running, FR_SIGNAL_CANCEL
\* deletes the request
tacacs_queued(w) ==
    /\ Running(w, "tac_queued")
    /\ \/ /\ TacacsGoto(w, req[w], "tac_init")
          /\ TacacsFrame
       \/ tacacs_request_delete(w)

\* tacacs_running on a request that had yielded, taking case REQUEST_RECV
\* whatever request_state is
tacacs_running_resume_recv(w) ==
    /\ Running(w, "tac_yielded")
    /\ LET r == [req[w] EXCEPT !.dv = FALSE]
           how == IF r.stop THEN "stopped" ELSE "run"
       IN  \/ TacacsGoto(w, [r EXCEPT !.resumed = "cancel"], "tac_done")
           \/ TacacsGoto(w, [r EXCEPT !.resumed = how], "tac_recv")
    /\ TacacsFrame

\* tacacs_running on a request that had yielded: dv starts NULL again;
\* FR_SIGNAL_CANCEL goes to done, otherwise on to the case of request_state
tacacs_running_resume(w) ==
    /\ Running(w, "tac_yielded")
    /\ LET r == [req[w] EXCEPT !.dv = FALSE]
           how == IF r.stop THEN "stopped" ELSE "run"
       IN  \/ TacacsGoto(w, [r EXCEPT !.resumed = "cancel"], "tac_done")
           \/ TacacsGoto(w, [r EXCEPT !.resumed = how],
                         CASE r.request_state = "RECV" -> "tac_recv"
                           [] r.request_state = "PROCESS" -> "tac_process"
                           [] OTHER -> "tac_send")
    /\ TacacsFrame

\* case REQUEST_INIT: tacacs_decode (0, -2 or another failure), the recv
\* section, and for authentication state_add and fr_state_to_request
tacacs_running_init(w) ==
    /\ Running(w, "tac_init")
    /\ \E rc \in {"ok", "abort", "fail"}, recv \in BOOLEAN :
         LET r == req[w]
         IN  CASE rc = "abort" -> TacacsGoto(w, r, "tac_done")
               [] rc = "fail" \/ ~recv -> TacacsGoto(w, r, "tac_setup_send")
               [] OTHER ->
                    IF r.type = "AUTHEN"
                    THEN TacacsCall(w, [r EXCEPT !.packet = state_add(r),
                                                 !.request_state = "RECV"],
                                    "s2r_enter", "tac_recv")
                    ELSE TacacsGoto(w, [r EXCEPT !.request_state = "RECV"],
                                    "tac_recv")
    /\ TacacsFrame

\* The Auth-Type of the control list: none, the Accept or Reject sentinel,
\* a value without a name (dv stays NULL), a name without a process section,
\* or a name with one
AuthTypes == {"none", "Accept", "Reject", "unknown", "unconfigured", "configured"}

\* The switch of REQUEST_RECV with RLM_MODULE_INVALID among the rcodes that
\* go on to the choice of Auth-Type
tacacs_running_recv_route_lenient(w, r, rcode, auth) ==
    IF rcode = "HANDLED" THEN TacacsGoto(w, r, "tac_setup_send")
    ELSE IF rcode \notin {"NOOP", "NOTFOUND", "OK", "UPDATED", "INVALID"}
    THEN TacacsGoto(w, [r EXCEPT !.status = tacacs_status(r.type, rcode, @)],
                    "tac_setup_send")
    ELSE IF auth = "configured"
    THEN TacacsGoto(w, [r EXCEPT !.dv = TRUE, !.request_state = "PROCESS"],
                    "tac_process")
    ELSE TacacsGoto(w, [r EXCEPT !.status = tacacs_status(r.type, "FAIL", @),
                                 !.dv = (auth = "unconfigured")],
                    "tac_setup_send")

\* case REQUEST_RECV after unlang_interpret_continue returned rcode, not
\* stopped, not yielded: the switch on rcode and the choice of Auth-Type
tacacs_running_recv_route(w, r, rcode, auth) ==
    IF rcode = "HANDLED" THEN TacacsGoto(w, r, "tac_setup_send")
    ELSE IF rcode \notin {"NOOP", "NOTFOUND", "OK", "UPDATED"}
    THEN TacacsGoto(w, [r EXCEPT !.status = tacacs_status(r.type, rcode, @)],
                    "tac_setup_send")
    ELSE CASE auth \in {"none", "Reject"} ->
                TacacsGoto(w, [r EXCEPT !.status = tacacs_status(r.type, "REJECT", @)],
                           "tac_setup_send")
           [] auth = "Accept" ->
                TacacsGoto(w, [r EXCEPT !.status = tacacs_status(r.type, "OK", @)],
                           "tac_setup_send")
           [] auth = "unknown" ->
                TacacsGoto(w, [r EXCEPT !.status = tacacs_status(r.type, "FAIL", @)],
                           "tac_setup_send")
           [] auth = "unconfigured" ->
                TacacsGoto(w, [r EXCEPT !.status = tacacs_status(r.type, "FAIL", @),
                                        !.dv = TRUE],
                           "tac_setup_send")
           [] OTHER ->
                TacacsGoto(w, [r EXCEPT !.dv = TRUE, !.request_state = "PROCESS"],
                           "tac_process")

\* case REQUEST_RECV
tacacs_running_recv(w) ==
    /\ Running(w, "tac_recv")
    /\ \E r \in Policy(req[w]), rcode \in Rcodes \cup {"YIELD"}, auth \in AuthTypes :
         IF r.stop THEN tacacs_running_stop(w, r)
         ELSE IF rcode = "YIELD" THEN TacacsGoto(w, r, "tac_yielded")
         ELSE tacacs_running_recv_route(w, r, rcode, auth)
    /\ TacacsFrame

\* The switch of REQUEST_PROCESS with RLM_MODULE_UPDATED treated as success
tacacs_running_process_route_soft(w, r, rcode) ==
    IF rcode \in {"OK", "UPDATED"}
    THEN TacacsGoto(w, [r EXCEPT !.status = tacacs_status(r.type, "OK", @)],
                    "tac_setup_send")
    ELSE IF rcode = "HANDLED" THEN TacacsGoto(w, r, "tac_setup_send")
    ELSE TacacsGoto(w, [r EXCEPT !.status = tacacs_status(r.type, "FAIL", @)],
                    "tac_setup_send")

\* case REQUEST_PROCESS after unlang_interpret_continue returned rcode
tacacs_running_process_route(w, r, rcode) ==
    IF rcode = "OK"
    THEN TacacsGoto(w, [r EXCEPT !.status = tacacs_status(r.type, "OK", @)],
                    "tac_setup_send")
    ELSE IF rcode = "HANDLED" THEN TacacsGoto(w, r, "tac_setup_send")
    ELSE TacacsGoto(w, [r EXCEPT !.status = tacacs_status(r.type, "FAIL", @)],
                    "tac_setup_send")

\* case REQUEST_PROCESS
tacacs_running_process(w) ==
    /\ Running(w, "tac_process")
    /\ \E r \in Policy(req[w]), rcode \in Rcodes \cup {"YIELD"} :
         IF r.stop THEN tacacs_running_stop(w, r)
         ELSE IF rcode = "YIELD" THEN TacacsGoto(w, r, "tac_yielded")
         ELSE tacacs_running_process_route(w, r, rcode)
    /\ TacacsFrame

\* setup_send when "send <packet-code>" is configured or not (by_code) and
\* "send *" is configured or not (star): "send <packet-code>" is looked up
\* only when dv is set, then "send *"; with no section the reply is sent at
\* once
tacacs_running_setup_send_route(w, r, by_code, star) ==
    LET unlang == IF r.dv /\ by_code THEN "code"
                  ELSE IF star THEN "star" ELSE "none"
    IN  IF unlang = "none"
        THEN TacacsGoto(w, [r EXCEPT !.unlang = "none"], "tac_send_reply")
        ELSE TacacsGoto(w, [r EXCEPT !.unlang = unlang,
                                     !.request_state = "SEND"], "tac_send")

\* setup_send, whatever send sections the virtual server has
tacacs_running_setup_send(w) ==
    /\ Running(w, "tac_setup_send")
    /\ \E by_code \in BOOLEAN, star \in BOOLEAN :
         tacacs_running_setup_send_route(w, req[w], by_code, star)
    /\ TacacsFrame

\* case REQUEST_SEND: any rcode but yield goes on to send_reply
tacacs_running_send(w) ==
    /\ Running(w, "tac_send")
    /\ \E r \in Policy(req[w]), rcode \in {"OK", "YIELD"} :
         IF r.stop THEN tacacs_running_stop(w, r)
         ELSE IF rcode = "YIELD" THEN TacacsGoto(w, r, "tac_yielded")
         ELSE TacacsGoto(w, r, "tac_send_reply")
    /\ TacacsFrame

\* send_reply: for authentication, what becomes of the session-state
tacacs_running_send_reply(w) ==
    /\ Running(w, "tac_send_reply")
    /\ LET r == [req[w] EXCEPT !.disposition = req[w].status]
       IN  IF r.type # "AUTHEN" THEN TacacsGoto(w, r, "tac_reply")
           ELSE IF r.status = "absent" \/ r.status \in TerminalStatus
           THEN TacacsCall(w, r, "dis_enter", "tac_reply")
           ELSE IF r.seq = NULL THEN TacacsGoto(w, r, "tac_done")
           ELSE IF r.seq = SeqWrap THEN TacacsCall(w, r, "dis_enter", "tac_wrap")
           ELSE TacacsCall(w, [r EXCEPT !.reply = state_add(r)],
                           "r2s_enter", "tac_reply")
    /\ TacacsFrame

\* After the discard of a sequence number that would wrap: the reply's
\* attributes are freed and its status is set to Restart
tacacs_running_wrap(w) ==
    /\ Running(w, "tac_wrap")
    /\ TacacsGoto(w, [req[w] EXCEPT !.reply = NULL, !.status = "Restart"],
                  "tac_reply")
    /\ TacacsFrame

\* tacacs_send, which may fail; done follows either way
tacacs_running_reply(w) ==
    /\ Running(w, "tac_reply")
    /\ \E ok \in BOOLEAN : TacacsGoto(w, [req[w] EXCEPT !.sent = ok], "tac_done")
    /\ TacacsFrame

\* done: fr_heap_extract and request_delete
tacacs_running_done(w) ==
    /\ Running(w, "tac_done")
    /\ tacacs_request_delete(w)

TacacsStep(w) ==
    \/ tacacs_arrive(w)
    \/ request_stop(w)
    \/ tacacs_queued(w)
    \/ tacacs_running_resume(w)
    \/ tacacs_running_init(w)
    \/ tacacs_running_recv(w)
    \/ tacacs_running_process(w)
    \/ tacacs_running_setup_send(w)
    \/ tacacs_running_send(w)
    \/ tacacs_running_send_reply(w)
    \/ tacacs_running_wrap(w)
    \/ tacacs_running_reply(w)
    \/ tacacs_running_done(w)

\* time(NULL) advances
Tick ==
    /\ ~crashed
    /\ clock < lim.clock
    /\ clock' = clock + 1
    /\ UNCHANGED <<max_sessions, timeout, table_vars, mutex, nreq,
                   alloc_fails, active, lim, pc, req, loc, result, crashed, hist>>

\* ------------------------------------------------------- specifications
\* fr_request_to_state when talloc_zero succeeds
CreateStep(w) ==
    \/ fr_request_to_state_enter(w)
    \/ fr_request_to_state_create(w)
    \/ state_entry_create_alloc(w)
    \/ state_entry_create_init(w)
    \/ fr_request_to_state_finish(w)

DiscardStep(w) ==
    \/ fr_state_discard_enter(w)
    \/ fr_state_discard_unlink(w)
    \/ fr_state_discard_free(w)

RestoreStep(w) ==
    \/ fr_state_to_request_enter(w)
    \/ fr_state_to_request_move(w)
    \/ fr_state_to_request_free(w)

StateStep(w) ==
    \/ CreateStep(w)
    \/ state_entry_create_nomem(w)
    \/ DiscardStep(w)
    \/ RestoreStep(w)

CallerStep(w) ==
    \/ request_setup(w)
    \/ call_fr_state_to_request(w)
    \/ call_fr_request_to_state(w)
    \/ call_fr_state_discard(w)
    \/ request_delete(w)

Next == Tick \/ \E w \in Workers : StateStep(w) \/ CallerStep(w)

\* Worker threads calling state.c concurrently
Init ==
    InitWith(1..NumWorkers, MaxSessions, Timeout,
             [requests |-> ConcRequests, entries |-> ConcEntries,
              clock |-> ConcClock, tokens |-> MaxToken,
              alloc_fails |-> MaxAllocFail, history |-> 0])
Spec == Init /\ [][Next]_vars

\* One thread: the calls follow one another
InitSeq ==
    InitWith({1}, MaxSessions, Timeout,
             [requests |-> MaxRequests, entries |-> MaxEntries,
              clock |-> MaxClock, tokens |-> MaxToken,
              alloc_fails |-> MaxAllocFail, history |-> 1])
SpecSeq == InitSeq /\ [][Next]_vars

\* The capacity scenario: CapSessions + 1 workers, each with the first round
\* of a session of its own, max_sessions = CapSessions, the clock at rest
InitCap ==
    InitWith(1..(CapSessions + 1), CapSessions, Timeout,
             [requests |-> CapSessions + 1, entries |-> CapSessions + 1,
              clock |-> 0, tokens |-> CapSessions + 1, alloc_fails |-> 0,
              history |-> 0])
NextCap == \E w \in Workers : CreateStep(w) \/ first_round(w)
SpecCap == InitCap /\ [][NextCap]_vars

\* The admission scenario: one thread, the clock at rest, talloc_zero never
\* failing, sessions that start (a save) or end (a discard)
InitAdmit ==
    InitWith({1}, MaxSessions, Timeout,
             [requests |-> MaxSessions + 3, entries |-> MaxSessions + 1,
              clock |-> 0, tokens |-> MaxSessions + 3, alloc_fails |-> 0,
              history |-> MaxSessions + 3])
NextAdmit ==
    \E w \in Workers :
        \/ CreateStep(w)
        \/ DiscardStep(w)
        \/ first_round(w)
        \/ last_round(w)
        \/ request_delete(w)
SpecAdmit == InitAdmit /\ [][NextAdmit]_vars

\* The sharing scenario: worker threads whose requests restore, save and
\* discard for the same State values, the clock at rest, talloc_zero never
\* failing
InitShare ==
    InitWith(1..NumWorkers, MaxSessions, Timeout,
             [requests |-> MaxRequests, entries |-> ConcEntries, clock |-> 0,
              tokens |-> MaxToken, alloc_fails |-> 0, history |-> 0])
NextShare ==
    \E w \in Workers :
        \/ CreateStep(w)
        \/ DiscardStep(w)
        \/ RestoreStep(w)
        \/ CallerStep(w)
SpecShare == InitShare /\ [][NextShare]_vars

\* The locking scenario: worker threads that save, restore and discard for
\* one State value, the clock at rest, talloc_zero failing at most
\* MaxAllocFail times, max_sessions 1 or MaxSessions; every thread that can
\* take a step eventually takes one (weak fairness: the operating system
\* schedules every runnable thread)
InitLock ==
    \E maxs \in {1, MaxSessions} :
        InitWith(1..NumWorkers, maxs, Timeout,
                 [requests |-> ConcRequests, entries |-> ConcEntries,
                  clock |-> 0, tokens |-> 1, alloc_fails |-> MaxAllocFail,
                  history |-> 0])
NextLock == \E w \in Workers : StateStep(w) \/ CallerStep(w)
SpecLock ==
    /\ InitLock
    /\ [][NextLock]_vars
    /\ \A w \in Workers : WF_vars(StateStep(w) \/ CallerStep(w))

\* proto_tacacs: one thread running tacacs_queued and tacacs_running on the
\* packets of TACACS+ sessions, one request after the other, the clock at
\* rest, talloc_zero never failing
InitTacacs ==
    InitWith({1}, MaxSessions, Timeout,
             [requests |-> ConcRequests, entries |-> ConcEntries, clock |-> 0,
              tokens |-> MaxToken, alloc_fails |-> 0, history |-> 0])
NextTacacs ==
    \E w \in Workers :
        \/ CreateStep(w)
        \/ DiscardStep(w)
        \/ RestoreStep(w)
        \/ TacacsStep(w)
SpecTacacs == InitTacacs /\ [][NextTacacs]_vars

\* A step of tacacs_queued or tacacs_running on the request of worker w, or
\* of a function of state.c called from there
TacacsRun(w) ==
    \/ CreateStep(w)
    \/ DiscardStep(w)
    \/ RestoreStep(w)
    \/ tacacs_queued(w)
    \/ tacacs_running_resume(w)
    \/ tacacs_running_init(w)
    \/ tacacs_running_recv(w)
    \/ tacacs_running_process(w)
    \/ tacacs_running_setup_send(w)
    \/ tacacs_running_send(w)
    \/ tacacs_running_send_reply(w)
    \/ tacacs_running_wrap(w)
    \/ tacacs_running_reply(w)
    \/ tacacs_running_done(w)

\* unlang_interpret_continue returns something else than RLM_MODULE_YIELD
TacacsVerdict(w) ==
    /\ \/ tacacs_running_recv(w)
       \/ tacacs_running_process(w)
       \/ tacacs_running_send(w)
    /\ pc'[w] # "tac_yielded"

\* proto_tacacs with a scheduler that runs every queued request and resumes
\* every yielded request (weak fairness of the steps of the worker), and
\* sections that yield only finitely many times (strong fairness of the
\* returns other than yield).  One thread receives FairRequests packets of
\* session 1; the table is empty, or holds the entry that an earlier round
\* of the session has saved
InitTacacsFair ==
    /\ \E saved \in BOOLEAN :
         /\ tree = IF saved THEN {1} ELSE {}
         /\ head = IF saved THEN 1 ELSE NULL
         /\ tail = head
         /\ ent = [e \in EntryIds |->
                     IF saved /\ e = 1
                     THEN [ZeroEntry EXCEPT !.state = 1, !.cleanup = Timeout,
                                            !.ctx = 1, !.data = 1]
                     ELSE ZeroEntry]
         /\ nalloc = IF saved THEN 1 ELSE 0
         /\ next_id = nalloc
         /\ nreq = nalloc
         /\ lim = [requests |-> nreq + FairRequests,
                   entries |-> nalloc + FairRequests, clock |-> 0,
                   tokens |-> 1, alloc_fails |-> 0, history |-> 0]
    /\ clock = 0
    /\ max_sessions = MaxSessions
    /\ timeout = Timeout
    /\ mutex = NULL
    /\ released = [e \in EntryIds |-> 0]
    /\ arena_freed = [a \in Arenas |-> 0]
    /\ alloc_fails = 0
    /\ active = {1}
    /\ pc = [w \in Workers |-> "idle"]
    /\ req = [w \in Workers |-> NoRequest]
    /\ loc = [w \in Workers |-> LocInit]
    /\ result = [w \in Workers |-> "none"]
    /\ crashed = FALSE
    /\ hist = <<>>
SpecTacacsFair ==
    /\ InitTacacsFair
    /\ [][NextTacacs]_vars
    /\ \A w \in Workers : WF_vars(TacacsRun(w)) /\ SF_vars(TacacsVerdict(w))

\* state_entry_create at the octet level: one thread that has allocated entry
\* 1 and is about to give it its State.  The reply has a State or not; there
\* is a prior entry (entry 2, without request data, unlinked and freed by
\* now) or not
InitToken ==
    /\ \E vp \in ReplyStates, old \in {NULL, 2}, os \in OldStates,
          ot \in OldTries, v \in Versions, sd \in Seeds :
         /\ old = NULL => os = ZeroState /\ ot = 0
         /\ req = [w \in Workers |->
                     IF w = 1 THEN [NoRequest EXCEPT !.reply = vp, !.state_ctx = 1]
                     ELSE NoRequest]
         /\ loc = [w \in Workers |->
                     IF w = 1
                     THEN [LocInit EXCEPT !.ret = "end", !.old = old,
                                          !.old_tries = ot, !.old_state = os,
                                          !.entry = 1]
                     ELSE LocInit]
         /\ ent = [e \in EntryIds |->
                     IF e = 1 THEN [ZeroEntry EXCEPT !.state = ZeroState]
                     ELSE IF e = old
                     THEN [ZeroEntry EXCEPT !.state = os, !.tries = ot,
                                            !.cleanup = Timeout]
                     ELSE ZeroEntry]
         /\ released = [e \in EntryIds |-> IF e = old THEN 1 ELSE 0]
         /\ nalloc = IF old = NULL THEN 1 ELSE 2
         /\ next_id = nalloc
         /\ lim = [requests |-> 1, entries |-> 2, clock |-> 0, tokens |-> 1,
                   alloc_fails |-> 0, history |-> 0, version |-> v,
                   state_seed |-> sd]
    /\ clock = 0
    /\ max_sessions = MaxSessions
    /\ timeout = Timeout
    /\ tree = {}
    /\ head = NULL
    /\ tail = NULL
    /\ mutex = NULL
    /\ arena_freed = [a \in Arenas |-> 0]
    /\ nreq = 1
    /\ alloc_fails = 0
    /\ active = {1}
    /\ pc = [w \in Workers |-> IF w = 1 THEN "create_state" ELSE "idle"]
    /\ result = [w \in Workers |-> "none"]
    /\ crashed = FALSE
    /\ hist = <<>>
NextToken == \E w \in Workers : state_entry_create_generate(w)
SpecToken == InitToken /\ [][NextToken]_vars

TypeOK ==
    /\ tree \subseteq EntryIds
    /\ head \in EntryIds \cup {NULL}
    /\ tail \in EntryIds \cup {NULL}
    /\ mutex \in Workers \cup {NULL}


\* ------------------------------------------------------------ observers
\* The entries met walking the expiry list from e by next, in order
RECURSIVE ListFrom(_, _)
ListFrom(e, fuel) ==
    IF e = NULL \/ fuel = 0 THEN <<>> ELSE <<e>> \o ListFrom(ent[e].next, fuel - 1)

ExpiryList == ListFrom(head, Cardinality(EntryIds) + 1)
ExpirySet == {ExpiryList[i] : i \in 1..Len(ExpiryList)}

\* No call of state.c is in progress
Quiescent ==
    /\ ~crashed
    /\ \A w \in Workers : pc[w] \in {"idle", "new", "restored", "end"}

ResidentTokens == {ent[e].state : e \in tree}

\* C1: at every quiescent point an entry is in the rbtree iff it is linked in
\* the expiry list, so table size = list length = tree size; also when the
\* prior entry given to state_entry_create has already expired.
C1_TreeIsList ==
    Quiescent =>
        /\ ExpirySet = tree
        /\ Len(ExpiryList) = Cardinality(tree)

\* C2: in every reachable state the expiry list is in non-decreasing order of
\* cleanup: an entry never comes before one that expires earlier, whatever
\* the interleaving of the concurrent state_entry_create calls.
C2_ExpirySorted ==
    ~crashed =>
        \A i, j \in 1..Len(ExpiryList) :
            i < j => ent[ExpiryList[i]].cleanup <= ent[ExpiryList[j]].cleanup

\* No two entries of the rbtree hold the same State value
UniqueTokens == \A x, y \in tree : ent[x].state = ent[y].state => x = y

\* Worker w holds the mutex after the second max_sessions check would pass,
\* and the State value of its new entry is that of a resident entry
Colliding(w) ==
    /\ ~crashed
    /\ pc[w] = "create_relocked"
    /\ Cardinality(tree) < max_sessions
    /\ ent[loc[w].entry].state \in ResidentTokens

\* The step of w returned false, freed the new entry once and left the
\* rbtree, the expiry list and every resident entry as they were
Refused(w) ==
    /\ pc'[w] = loc[w].ret
    /\ result'[w] = "false"
    /\ released'[loc[w].entry] = released[loc[w].entry] + 1
    /\ tree' = tree
    /\ head' = head
    /\ tail' = tail
    /\ \A x \in tree : ent'[x] = ent[x]

\* C3: the rbtree never holds two entries with the same State value; an
\* insert whose State value equals that of a resident entry fails, the new
\* entry is freed and the resident entry stays in place, untouched.
C3_OnePerToken ==
    [][/\ UniqueTokens'
       /\ \A w \in Workers : Colliding(w) /\ pc'[w] # pc[w] => Refused(w)]_vars

\* A create has just been refused for a State value that is resident: its
\* entry, allocated after the resident one, is freed and not in the rbtree
C3_Witness ==
    \E w \in Workers, e \in EntryIds, x \in tree :
        /\ ~crashed
        /\ pc[w] = "end" /\ result[w] = "false"
        /\ req[w].reply = ent[e].state
        /\ e \notin tree /\ released[e] = 1 /\ e > x
        /\ ent[x].state = ent[e].state
        /\ Cardinality(tree) < max_sessions

\* Every worker of the run has had its call of fr_request_to_state return
AllReturned == \A w \in active : pc[w] = "end"

\* C4: whatever the interleaving of the concurrent creates, the rbtree never
\* holds more than max_sessions entries; when max_sessions + 1 sessions with
\* distinct State values have all tried, exactly max_sessions entries are
\* resident and exactly one call returned false.
C4_Capacity ==
    /\ Cardinality(tree) <= max_sessions
    /\ AllReturned =>
          /\ Cardinality(tree) = max_sessions
          /\ Cardinality({w \in active : result[w] = "false"}) = 1
          /\ Cardinality({w \in active : result[w] = "true"}) = max_sessions

\* All have returned, and the one that failed had passed the first check: it
\* allocated an entry and was turned down by the check after re-locking
C4_Witness ==
    /\ AllReturned
    /\ Cardinality(active) = max_sessions + 1
    /\ nalloc = max_sessions + 1
    /\ \E w \in active : result[w] = "false"
    /\ \E e \in EntryIds : released[e] = 1 /\ e \notin tree

\* The entries resident after the first i calls of the history, when every
\* call is there, no entry expired and no save had a prior entry
RECURSIVE Admitted(_)
Admitted(i) ==
    IF i = 0 THEN 0
    ELSE Admitted(i - 1)
         + (IF hist[i].op = "save" /\ hist[i].ret THEN 1
            ELSE IF hist[i].op = "discard" /\ hist[i].ret THEN -1
            ELSE 0)

\* A save succeeds exactly when fewer than max_sessions entries are resident
AdmittedWhileRoom ==
    /\ \A i \in 1..Len(hist) :
          hist[i].op = "save" => (hist[i].ret <=> Admitted(i - 1) < max_sessions)
    /\ Quiescent => Cardinality(tree) = Admitted(Len(hist))

\* The step is the return of a save that failed
SaveFails(w) == pc[w] # "end" /\ pc'[w] = "end" /\ result'[w] = "false"

\* C5: one thread, no expiry, saves with distinct State values: a save
\* succeeds exactly when fewer than max_sessions entries are resident (so
\* after max_sessions successes the next one fails, and after a discard of a
\* resident State exactly one more succeeds), and a save that fails leaves
\* the rbtree, the expiry list and the resident entries unchanged.
C5_Admission ==
    [][/\ AdmittedWhileRoom'
       /\ \A w \in Workers :
             SaveFails(w) =>
                 /\ tree' = tree /\ head' = head /\ tail' = tail
                 /\ \A x \in tree : ent'[x] = ent[x]]_vars

\* max_sessions saves succeeded, the next failed, a resident State was
\* discarded, and one more save has succeeded
C5_Witness ==
    /\ Len(hist) = max_sessions + 3
    /\ \A i \in 1..max_sessions : hist[i].op = "save" /\ hist[i].ret
    /\ hist[max_sessions + 1].op = "save" /\ ~hist[max_sessions + 1].ret
    /\ hist[max_sessions + 2].op = "discard" /\ hist[max_sessions + 2].ret
    /\ hist[max_sessions + 3].op = "save" /\ hist[max_sessions + 3].ret
    /\ Cardinality(tree) = max_sessions

\* Worker w is about to run the critical section of fr_state_to_request for
\* the State that the last call, a successful save, left on its reply
RestoresLastSave(w) ==
    /\ ~crashed
    /\ pc[w] = "s2r_locked"
    /\ last_op.op = "save" /\ last_op.ret
    /\ last_op.tok # NULL
    /\ req[w].packet = last_op.tok

\* The request has what the saving request held, and the entry nothing
RoundTrip(w) ==
    /\ req'[w].state_ctx = last_op.ctx
    /\ req'[w].state = last_op.vps
    /\ req'[w].data = last_op.data
    /\ \A x \in tree' :
          ent'[x].state = req[w].packet =>
              ent'[x].ctx = NULL /\ ent'[x].vps = NULL /\ ent'[x].data = NULL

\* C6: a save by a request holding state_ctx A, session-state attributes V and
\* persistable request data D, followed by a restore on a later request that
\* carries the State of the save, gives that request A, V and D and leaves
\* the entry with ctx, vps and data NULL; for every V and D, V non-empty with
\* D empty included.
C6_RoundTrip ==
    [][\A w \in Workers : RestoresLastSave(w) /\ pc'[w] # pc[w] => RoundTrip(w)]_vars

\* Worker w is about to run the critical section of fr_state_discard
Discarding(w) == ~crashed /\ pc[w] = "dis_locked" /\ pc'[w] # pc[w]

\* The packet of w carries no State, or one that no resident entry has
DiscardMiss(w) == req[w].packet \notin ResidentTokens

\* The last call was a discard for the State that the packet of w carries
DiscardAgain(w) == last_op.op = "discard" /\ last_op.tok = req[w].packet

\* The call returned at once, with nothing of the table changed
DiscardNoOp(w) ==
    /\ pc'[w] = loc[w].ret
    /\ result'[w] = "none"
    /\ ~crashed'
    /\ UNCHANGED <<tree, head, tail, ent, released, arena_freed, next_id>>

\* C7: a discard that follows a discard of the same State leaves the table as
\* the first one left it, and a discard for a State that is not resident, or
\* for a packet without State, changes nothing and returns normally.
C7_DiscardIdempotent ==
    [][\A w \in Workers :
          Discarding(w) /\ (DiscardMiss(w) \/ DiscardAgain(w)) => DiscardNoOp(w)]_vars

\* A discard found and freed the entry of a State, and the next call, a
\* discard for the same State, has returned without finding one
C7_Witness ==
    \E i \in 1..(Len(hist) - 1) :
        /\ i + 1 = Len(hist)
        /\ hist[i].op = "discard" /\ hist[i].ret
        /\ hist[i + 1].op = "discard" /\ ~hist[i + 1].ret
        /\ hist[i + 1].tok = hist[i].tok
        /\ \E e \in EntryIds : released[e] = 1 /\ ent[e].state = hist[i].tok
        /\ \E w \in active : pc[w] = "end"

\* The last call was a save that inserted the entry allocated last
JustCreated(n) ==
    /\ Quiescent
    /\ last_op.op = "save" /\ last_op.ret
    /\ n = nalloc /\ n \in tree
    /\ ent[n].state = last_op.tok

\* Entry x had expired at the time now of the create that made entry n
ExpiredBefore(x, n) == ent[x].cleanup < ent[n].cleanup - timeout

\* Every entry expired at the time of the create is out of the rbtree and of
\* the expiry list, and was freed once
Reaped(n) ==
    \A x \in 1..nalloc :
        x # n /\ ExpiredBefore(x, n) =>
            x \notin tree /\ x \notin ExpirySet /\ released[x] = 1

\* The critical section of the create of w keeps the unexpired entries,
\* except the prior entry it was given
KeepsUnexpired(w) ==
    pc[w] = "r2s_locked" /\ pc'[w] # pc[w] =>
        \A x \in tree :
            ent[x].cleanup >= clock /\ ent[x].state # req[w].packet => x \in tree'

\* C8: a create at time now unlinks and frees every entry with cleanup < now
\* before it inserts the new one and keeps those with cleanup >= now; so
\* after a create called more than timeout after the last insertion, no
\* entry that was resident remains and each has been freed.
C8_Reap ==
    [][/\ \A n \in EntryIds : JustCreated(n)' => Reaped(n)'
       /\ \A w \in Workers : KeepsUnexpired(w)]_vars

\* The entries and the live requests that point at state_ctx a
EntryOwners(a) == {e \in EntryIds : ent[e].ctx = a}
RequestOwners(a) == {w \in Workers : pc[w] # "idle" /\ req[w].state_ctx = a}

\* C9: whatever the interleaving of restores, saves and discards, also by two
\* requests that carry the same State, a state_ctx is pointed at by at most
\* one owner: one entry or one live request, never two of them.
C9_SingleOwner ==
    ~crashed =>
        \A a \in Arenas :
            Cardinality(EntryOwners(a)) + Cardinality(RequestOwners(a)) <= 1

\* Two live requests carry the same State and both have been through
\* fr_state_to_request: one holds the state_ctx saved by the first request,
\* the other still its own, and the resident entry holds none
C9_Witness ==
    \E w1, w2 \in Workers, e \in tree :
        /\ ~crashed
        /\ w1 # w2
        /\ pc[w1] = "restored" /\ pc[w2] = "restored"
        /\ req[w1].packet # NULL /\ req[w1].packet = req[w2].packet
        /\ ent[e].state = req[w1].packet /\ ent[e].ctx = NULL
        /\ req[w1].state_ctx = 1
        /\ req[w2].state_ctx \notin {NULL, 1}

\* The step deletes the request of w: it is DONE
BecomesDone(w) == pc[w] = "tac_done" /\ pc'[w] = "idle"

\* The request of w is an authentication request that went through the
\* termination disposition with the status of the reply absent or terminal
TerminalOutcome(w) ==
    /\ req[w].type = "AUTHEN"
    /\ req[w].disposition \in TerminalStatus \cup {"absent"}

\* C10: when an authentication request that reached the termination
\* disposition with the status of its reply absent, Pass, Fail, Restart,
\* Error or Follow is DONE, no entry with the State of its conversation (the
\* value state_add gives for its listener and session id) is resident.
C10_TerminalDiscards ==
    [][\A w \in Workers :
          ~crashed /\ BecomesDone(w) /\ TerminalOutcome(w) =>
              state_add(req[w]) \notin ResidentTokens']_vars

\* The request of w is an authentication request that went through the
\* termination disposition with a continuation status on its reply
Continuing(w) ==
    /\ req[w].type = "AUTHEN"
    /\ req[w].disposition \notin TerminalStatus \cup {"absent", "none"}

\* The rbtree holds an entry with the State of the conversation of w that
\* owns a state_ctx not freed, and the request of w holds none any more
CarriedForward(w) ==
    /\ req[w].state_ctx = NULL
    /\ \E e \in tree' :
          /\ ent'[e].state = state_add(req[w])
          /\ ent'[e].ctx # NULL
          /\ arena_freed'[ent'[e].ctx] = 0

\* C11: when an authentication request whose reply had a continuation status
\* and whose packet had a sequence number other than 253 is DONE, the rbtree
\* holds an entry keyed by the State of the reply that owns the state_ctx and
\* session-state attributes the request had, for the next round to restore.
C11_ContinuationCarries ==
    [][\A w \in Workers :
          /\ ~crashed
          /\ BecomesDone(w)
          /\ Continuing(w)
          /\ req[w].seq \notin {NULL, SeqWrap}
          => CarriedForward(w)]_vars

\* The last state.c call made for the request of w, the fr_request_to_state
\* of the termination disposition, returned false
SaveRefused(w) == pc[w] = "tac_done" /\ result[w] = "false"

\* tacacs_send has sent the reply of w with a continuation status on it
ContinuationSent(w) ==
    /\ req[w].sent
    /\ req[w].status \notin TerminalStatus \cup {"absent"}

\* C12: when fr_request_to_state returns false in the termination disposition
\* (table at max_sessions, or a State already resident), the request ends in
\* a protocol-level failure: the continuation reply is not sent to the
\* client as if the session-state had been saved.
C12_BackPressure ==
    \A w \in Workers : ~crashed /\ SaveRefused(w) => ~ContinuationSent(w)

\* The request of w is an authorisation or accounting request
NonAuth(w) == req[w].type \in {"AUTHOR", "ACCT"}

\* The program points inside fr_request_to_state, fr_state_discard and
\* fr_state_to_request
StatePoints ==
    {"r2s_enter", "r2s_locked", "create_unlocked", "create_nomem",
     "create_init", "create_relocked", "dis_enter", "dis_locked",
     "dis_unlocked", "s2r_enter", "s2r_locked", "s2r_unlocked"}

\* C13: an authorisation or accounting request never calls
\* fr_state_to_request, fr_request_to_state or fr_state_discard, on any path
\* of tacacs_queued and tacacs_running (completion, decode failure, stop,
\* cancel), and no step taken for it changes the rbtree, the expiry list,
\* the entries or the id counter.
C13_NonAuthFrame ==
    [][\A w \in Workers :
          NonAuth(w) \/ NonAuth(w)' =>
              /\ pc'[w] \notin StatePoints
              /\ req'[w].calls = <<>>
              /\ (pc'[w] # pc[w] \/ req'[w] # req[w]) =>
                    UNCHANGED <<tree, head, tail, ent, next_id, nalloc, released>>]_vars

\* An authorisation or accounting request has been through send_reply and
\* its reply was sent, while the entry of an authentication conversation
\* with the same session id is resident
C13_Witness ==
    \E w \in Workers :
        /\ ~crashed
        /\ NonAuth(w)
        /\ pc[w] = "tac_done"
        /\ req[w].disposition # "none"
        /\ req[w].sent
        /\ state_add(req[w]) \in ResidentTokens

\* The request of w is an authentication request that had yielded and whose
\* resumption was a FR_SIGNAL_CANCEL
Cancelled(w) == req[w].type = "AUTHEN" /\ req[w].resumed = "cancel"

\* C14: FR_SIGNAL_CANCEL delivered to an authentication request that yielded
\* in RECV, PROCESS or SEND behaves as an external stop: fr_state_discard is
\* called for the State of its packet before the request is DONE, so no entry
\* with that State is resident afterwards.
C14_CancelDiscards ==
    [][\A w \in Workers :
          ~crashed /\ BecomesDone(w) /\ Cancelled(w) =>
              state_add(req[w]) \notin ResidentTokens']_vars

\* The request of w is an authentication request that had yielded and was
\* resumed with master_state already REQUEST_STOP_PROCESSING
StoppedInYield(w) == req[w].type = "AUTHEN" /\ req[w].resumed = "stopped"

\* How many times fn is among the state.c calls made for the request r
CallCount(r, fn) == Cardinality({i \in 1..Len(r.calls) : r.calls[i] = fn})

\* C15: an authentication request that yielded in RECV, PROCESS or SEND and
\* is resumed with the stop flag set calls fr_state_discard exactly once,
\* never calls fr_request_to_state, sends no reply, and is deleted once: the
\* step that makes it DONE leaves its worker without a request, and no
\* state_ctx has been freed twice.
C15_StopInYield ==
    [][\A w \in Workers :
          ~crashed /\ BecomesDone(w) /\ StoppedInYield(w) =>
              /\ CallCount(req[w], "dis_enter") = 1
              /\ CallCount(req[w], "r2s_enter") = 0
              /\ ~req[w].sent
              /\ req[w].disposition = "none"
              /\ req'[w] = NoRequest
              /\ \A a \in Arenas : arena_freed'[a] <= 1]_vars

\* An authentication request that restored its session-state and yielded in
\* PROCESS was resumed with the stop flag set; fr_state_discard was called
\* once, it found and freed the entry of the conversation, and the request
\* is about to be deleted
C15_Witness ==
    \E w \in Workers, e \in EntryIds :
        /\ ~crashed
        /\ StoppedInYield(w)
        /\ pc[w] = "tac_done"
        /\ req[w].request_state = "PROCESS"
        /\ req[w].calls = <<"s2r_enter", "dis_enter">>
        /\ ent[e].state = state_add(req[w])
        /\ released[e] = 1
        /\ e \notin tree

\* The request of w is an authentication request that went through the
\* termination disposition with a continuation status and sequence number 253
Wrapping(w) == Continuing(w) /\ req[w].seq = SeqWrap

\* C16: when the reply of an authentication request has a continuation
\* status and the sequence number of the packet is 253, fr_state_discard is
\* called, the attributes of the reply are freed, its status becomes
\* RESTART and no entry is created; once the request is DONE no entry of
\* its conversation is resident.
C16_SequenceWrap ==
    [][\A w \in Workers :
          ~crashed /\ BecomesDone(w) /\ Wrapping(w) =>
              /\ CallCount(req[w], "dis_enter") = 1
              /\ CallCount(req[w], "r2s_enter") = 0
              /\ req[w].reply = NULL
              /\ req[w].status = "Restart"
              /\ state_add(req[w]) \notin ResidentTokens']_vars

\* The step is the first of a call of fr_request_to_state by w
Saving(w) == ~crashed /\ pc[w] = "r2s_enter" /\ pc'[w] # pc[w]

\* The call returns true at once and leaves the table as it was
ReturnsUntouched(w) ==
    /\ pc'[w] = loc[w].ret
    /\ result'[w] = "true"
    /\ UNCHANGED table_vars

\* C17: fr_request_to_state returns true without touching the table (no reap,
\* no insert, no unlink, id counter unchanged) exactly when the request has
\* neither session-state attributes nor persistable request data; in every
\* other case it goes on to create an entry.
C17_SaveShortCircuit ==
    [][\A w \in Workers :
          Saving(w) =>
              IF req[w].state = NULL /\ req[w].data = NULL
              THEN ReturnsUntouched(w)
              ELSE pc'[w] = "r2s_locked"]_vars

\* The step is one of a call of fr_state_to_request by w
Restoring(w) ==
    /\ ~crashed
    /\ pc[w] \in {"s2r_enter", "s2r_locked", "s2r_unlocked"}
    /\ pc'[w] # pc[w]

\* The rbtree, the expiry list and its order, the id counter and the free
\* count of every entry are as before
SameMembership ==
    /\ UNCHANGED <<tree, head, tail, next_id, nalloc, released>>
    /\ \A e \in EntryIds :
          /\ ent'[e].state = ent[e].state
          /\ ent'[e].cleanup = ent[e].cleanup
          /\ ent'[e].prev = ent[e].prev
          /\ ent'[e].next = ent[e].next
          /\ ent'[e].id = ent[e].id

\* The packet of w has no State, or none that is resident: nothing changes,
\* neither in the critical section nor after it
RestoreMiss(w) ==
    /\ pc[w] \in {"s2r_enter", "s2r_locked"} /\ req[w].packet \notin ResidentTokens =>
          /\ req'[w] = req[w]
          /\ UNCHANGED table_vars
          /\ pc[w] = "s2r_locked" => loc'[w].entry = NULL
    /\ pc[w] = "s2r_unlocked" /\ loc[w].entry = NULL =>
          /\ req'[w] = req[w]
          /\ UNCHANGED table_vars

\* The packet of w has the State of a resident entry: the entry stays, with
\* ctx, vps and data NULL, the request holds what the entry held (NULL and
\* nothing when the entry held nothing), and the state_ctx the request had
\* is freed once the mutex is released
RestoreHit(w) ==
    /\ pc[w] = "s2r_locked" =>
          \A e \in tree :
              ent[e].state = req[w].packet =>
                  /\ e \in tree'
                  /\ ent'[e].ctx = NULL /\ ent'[e].vps = NULL /\ ent'[e].data = NULL
                  /\ req'[w].state_ctx = ent[e].ctx
                  /\ req'[w].state = ent[e].vps
                  /\ req'[w].data = ent[e].data
                  /\ loc'[w].old_ctx = req[w].state_ctx
                  /\ arena_freed' = arena_freed
    /\ pc[w] = "s2r_unlocked" /\ loc[w].entry # NULL =>
          /\ req'[w] = req[w]
          /\ ent' = ent
          /\ \A a \in Arenas :
                arena_freed'[a] = arena_freed[a] + (IF a = loc[w].old_ctx THEN 1 ELSE 0)

\* C18: fr_state_to_request never changes the membership of the table (the
\* resident State values, the order of the expiry list, the id counter).
\* With no State on the packet, or none that is resident, the request and
\* the table are unchanged; on a hit the entry stays resident with ctx, vps
\* and data NULL and the request holds what the entry held: a NULL
\* state_ctx and no attributes when the entry had nothing left.
C18_RestoreFrame ==
    [][\A w \in Workers :
          Restoring(w) => SameMembership /\ RestoreMiss(w) /\ RestoreHit(w)]_vars

\* A request restored from an entry that an earlier request had already
\* emptied: the entry is still resident and holds nothing, the request has a
\* NULL state_ctx and no attributes, and the state_ctx it came with is freed
C18_Witness ==
    \E w \in Workers, e \in tree, a \in Arenas :
        /\ ~crashed
        /\ pc[w] = "restored"
        /\ req[w].packet = ent[e].state
        /\ ent[e].ctx = NULL /\ ent[e].vps = NULL /\ ent[e].data = NULL
        /\ req[w].state_ctx = NULL /\ req[w].state = NULL /\ req[w].data = NULL
        /\ a = nreq /\ arena_freed[a] = 1
        /\ \A o \in Workers \ {w} : pc[o] = "idle"

\* The program points at which a thread is inside a critical section
LockedPoints == {"r2s_locked", "create_relocked", "dis_locked", "s2r_locked"}

\* A thread inside a critical section holds the mutex
CriticalSections == \A w \in Workers : pc[w] \in LockedPoints => mutex = w

\* The step that makes entry e resident is taken by its creator under the
\* mutex and leaves e with the state_ctx, attributes and request data of the
\* saving request
InsertedComplete(e) ==
    e \notin tree /\ e \in tree' =>
        \E w \in Workers :
            /\ pc[w] = "create_relocked" /\ loc[w].entry = e
            /\ mutex = w /\ mutex' = NULL
            /\ ent'[e].ctx = req[w].state_ctx
            /\ ent'[e].vps = req[w].state
            /\ ent'[e].data = loc[w].data

\* What a resident entry holds changes only when a fr_state_to_request,
\* under the mutex, moves all of it to its request
TakenOnlyByRestore(e) ==
    /\ e \in tree /\ e \in tree'
    /\ <<ent'[e].ctx, ent'[e].vps, ent'[e].data>> # <<ent[e].ctx, ent[e].vps, ent[e].data>>
    => \E w \in Workers :
          /\ pc[w] = "s2r_locked" /\ mutex = w
          /\ req[w].packet = ent[e].state
          /\ req'[w].state_ctx = ent[e].ctx
          /\ req'[w].state = ent[e].vps
          /\ req'[w].data = ent[e].data

\* C19: under every interleaving, the insert of an entry and the assignment
\* of its ctx, vps and data happen in one critical section, so no thread sees
\* a resident entry of a save in progress with its fields unset, and a
\* fr_state_to_request that finds the entry gets the state_ctx, attributes
\* and request data the saver moved in.
C19_SaveBeforeRestore ==
    [][/\ CriticalSections'
       /\ ~crashed => \A e \in EntryIds : InsertedComplete(e) /\ TakenOnlyByRestore(e)]_vars

\* The request of one thread holds the state_ctx saved by the request of
\* another thread, which has returned from fr_request_to_state and is still
\* live
C19_Witness ==
    \E w1, w2 \in Workers :
        /\ ~crashed
        /\ w1 # w2
        /\ pc[w1] = "end" /\ result[w1] = "true" /\ req[w1].state_ctx = NULL
        /\ pc[w2] = "restored"
        /\ req[w2].packet # NULL /\ req[w2].packet = req[w1].reply
        /\ req[w2].state_ctx # NULL /\ req[w2].state_ctx # nreq

\* The step of w frees an entry that was resident, or a state_ctx: it is not
\* the talloc_free of the new entry that state_entry_create could not insert
Releases(w) ==
    /\ ~crashed
    /\ pc'[w] # pc[w]
    /\ pc[w] \in StatePoints
    /\ \/ \E e \in EntryIds :
             /\ released'[e] # released[e]
             /\ ~(pc[w] = "create_relocked" /\ e = loc[w].entry)
       \/ arena_freed' # arena_freed

\* The program points at which state.c frees what it took out of the table:
\* the free loop of state_entry_create, TALLOC_FREE(entry) of
\* fr_state_discard, talloc_free(old_ctx) of fr_state_to_request
ReleasePoints == {"create_unlocked", "dis_unlocked", "s2r_unlocked"}

\* C20: in every execution, the entries reaped or unlinked as the prior entry
\* by state_entry_create, the entry unlinked by fr_state_discard and the
\* previous state_ctx of the request in fr_state_to_request are freed while
\* the freeing thread does not hold the mutex.
C20_ReleaseUnlocked ==
    [][\A w \in Workers :
          Releases(w) => mutex # w /\ pc[w] \in ReleasePoints]_vars

\* A create has reaped an expired entry inside its critical section and has
\* freed it, with the state_ctx it held, after releasing the mutex and before
\* taking it again
C20_Witness ==
    \E w \in Workers, e \in EntryIds :
        /\ ~crashed
        /\ pc[w] = "create_init"
        /\ mutex = NULL
        /\ ent[e].cleanup < loc[w].now
        /\ e \notin tree
        /\ released[e] = 1
        /\ \E a \in Arenas : arena_freed[a] = 1

\* The step gives the new entry of w a generated State: the reply has none
Generating(w) ==
    /\ ~crashed
    /\ pc[w] = "create_state" /\ pc'[w] = "create_stated"
    /\ req[w].reply = NoState

\* Octet 0 of s is tries, octet 1 is octet 0 ^ tries, octets 8, 10 and 12 are
\* octet 2 ^ the high, mid and low octet of the version
Structured(s, tries, version) ==
    /\ s[1] = Octet(tries)
    /\ s[2] = Xor(s[1], Octet(tries))
    /\ s[9] = Xor(s[3], version[1])
    /\ s[11] = Xor(s[3], version[2])
    /\ s[13] = Xor(s[3], version[3])

\* C21: when state_entry_create generates the State (the reply carries none),
\* the State stored in the entry and put on the reply has octet 0 equal to
\* the entry's tries (mod 256), octet 1 equal to octet 0 XOR tries, and
\* octets 8, 10, 12 equal to octet 2 XOR the high, mid and low octet of the
\* version, whatever fr_rand returns.
C21_GeneratedState ==
    [][\A w \in Workers :
          Generating(w) =>
              /\ Structured(ent'[loc[w].entry].state, ent'[loc[w].entry].tries,
                            lim.version)
              /\ req'[w].reply = ent'[loc[w].entry].state]_vars

\* Worker w ends the unlocked part of a create that found a prior entry
CarryingForward(w) ==
    /\ pc[w] = "create_init"
    /\ pc'[w] = "create_relocked"
    /\ loc[w].old # NULL

\* C22: every create that found a prior entry gives the new entry the tries
\* of the prior entry plus one, whether the State value is generated or the
\* reply already carries a State attribute.
C22_TriesCarried ==
    [][\A w \in Workers :
         CarryingForward(w)
             => ent'[loc[w].entry].tries = loc[w].old_tries + 1]_vars

\* The entries whose id has been assigned (entry->id = state->id++ is done)
Numbered ==
    {e \in 1..nalloc :
       \A w \in Workers : ~(pc[w] = "create_init" /\ loc[w].entry = e)}

\* C23: no two entries ever carry the same id, and an entry allocated later
\* carries a larger id.
C23_IdsUnique ==
    \A e1 \in Numbered : \A e2 \in Numbered :
        e1 < e2 => ent[e1].id < ent[e2].id

\* The authentication status the process section's rcode must leave, given
\* the status the section itself left
ProcessVerdict(rcode, status) ==
    CASE rcode = "OK" -> "Pass"
      [] rcode = "HANDLED" -> status
      [] OTHER -> "Fail"

\* Worker w leaves REQUEST_PROCESS with a verdict: not stopped, not yielded
ProcessReturns(w) ==
    /\ pc[w] = "tac_process"
    /\ pc'[w] \notin {"tac_process", "tac_yielded"}
    /\ ~req[w].stop

\* C24: when the process section returns without yield and the request is
\* not stopped, the request always goes on to setup_send; for an
\* authentication packet OK leaves the status Pass, HANDLED leaves the status
\* the section set, and every other rcode (UPDATED, NOOP, NOTFOUND, REJECT,
\* FAIL, INVALID, USERLOCK) leaves it Fail.
C24_ProcessRouting ==
    [][\A w \in Workers :
         ProcessReturns(w)
             => /\ pc'[w] = "tac_setup_send"
                /\ req'[w].request_state = "PROCESS"
                /\ \A rcode \in Rcodes : \A r \in Policy(req[w]) :
                     (tacacs_running_process_route(w, r, rcode)
                      /\ r.type = "AUTHEN")
                         => req'[w].status = ProcessVerdict(rcode, r.status)]_vars

\* An authentication request is at setup_send after its process section failed
C24_Witness ==
    \E w \in Workers :
        /\ pc[w] = "tac_setup_send"
        /\ req[w].request_state = "PROCESS"
        /\ req[w].type = "AUTHEN"
        /\ req[w].status = "Fail"

\* The rcodes of the recv section that go on to the choice of Auth-Type, and
\* those that fail the request
SoftRcodes == {"NOOP", "NOTFOUND", "OK", "UPDATED"}
FailRcodes == {"FAIL", "INVALID", "REJECT", "USERLOCK"}

\* The status attribute a fail rcode of the recv section must leave
RecvVerdict(type, rcode) ==
    IF type = "ACCT" \/ rcode = "INVALID" THEN "Error" ELSE "Fail"

\* Worker w leaves REQUEST_RECV with a verdict: not stopped, not yielded
RecvReturns(w) ==
    /\ pc[w] = "tac_recv"
    /\ pc'[w] \notin {"tac_recv", "tac_yielded"}
    /\ ~req[w].stop

\* C25: when the recv section returns without yield and the request is not
\* stopped: HANDLED goes to setup_send with the status the section left and
\* with no Auth-Type chosen; FAIL, INVALID, REJECT and USERLOCK set the status
\* attribute and go to setup_send, never to the process section; NOOP,
\* NOTFOUND, OK and UPDATED go on to the choice of Auth-Type, which runs the
\* process section when the Auth-Type names a configured one.
C25_RecvRouting ==
    [][\A w \in Workers :
         RecvReturns(w)
             => /\ pc'[w] \in {"tac_setup_send", "tac_process"}
                /\ \A r \in Policy(req[w]) :
                     (r.state = req'[w].state /\ r.data = req'[w].data)
                         => /\ tacacs_running_recv_route(w, r, "HANDLED", "none")
                                 => /\ pc'[w] = "tac_setup_send"
                                    /\ req'[w] = r
                            /\ \A rcode \in FailRcodes :
                                 tacacs_running_recv_route(w, r, rcode, "none")
                                     => /\ pc'[w] = "tac_setup_send"
                                        /\ req'[w].status
                                               = RecvVerdict(r.type, rcode)
                                        /\ req'[w].dv = r.dv
                                        /\ req'[w].request_state = "RECV"
                            /\ \A rcode \in SoftRcodes : \A auth \in AuthTypes :
                                 tacacs_running_recv_route(w, r, rcode, auth)
                                     => (auth = "configured"
                                           <=> /\ pc'[w] = "tac_process"
                                               /\ req'[w].request_state
                                                      = "PROCESS")]_vars

\* An authentication request is at setup_send after its recv section
\* returned INVALID
C25_Witness ==
    \E w \in Workers :
        /\ pc[w] = "tac_setup_send"
        /\ req[w].request_state = "RECV"
        /\ req[w].type = "AUTHEN"
        /\ req[w].status = "Error"
        /\ ~req[w].dv

\* Worker w resolves the send section at setup_send
SetsUpSend(w) ==
    /\ pc[w] = "tac_setup_send"
    /\ pc'[w] # "tac_setup_send"

\* C26: whenever a request reaches setup_send and the virtual server has a
\* "send <packet-code>" section, that section is the one pushed, whether or
\* not "send *" exists too and whatever path led to setup_send.
C26_SendByCode ==
    [][\A w \in Workers :
         SetsUpSend(w)
             => \A star \in BOOLEAN :
                  tacacs_running_setup_send_route(w, req[w], TRUE, star)
                      => /\ pc'[w] = "tac_send"
                         /\ req'[w].unlang = "code"]_vars

\* The order of the values of request_state
PhaseRank(s) ==
    CASE s = "INIT" -> 0
      [] s = "RECV" -> 1
      [] s = "PROCESS" -> 2
      [] s = "SEND" -> 3

\* The request of worker w stays or moves forward in request_state, and is
\* deleted only by tacacs_queued on a cancel or at done
PhaseForward(w) ==
    /\ (pc[w] # "idle" /\ pc'[w] # "idle")
          => PhaseRank(req'[w].request_state) >= PhaseRank(req[w].request_state)
    /\ (pc[w] # "idle" /\ pc'[w] = "idle")
          => /\ pc[w] \in {"tac_queued", "tac_done"}
             /\ req'[w] = NoRequest

\* C27: when every queued or yielded request is eventually run and no section
\* yields for ever, every request is eventually deleted (at done, or by
\* tacacs_queued on a cancel), once; until then its request_state only moves
\* forward through INIT, RECV, PROCESS, SEND.
C27_Termination ==
    /\ \A w \in Workers : (pc[w] # "idle") ~> (pc[w] = "idle")
    /\ [][\A w \in Workers : PhaseForward(w)]_vars

\* A request that yielded in its send section and was resumed is at done
C27_Witness ==
    \E w \in Workers :
        /\ pc[w] = "tac_done"
        /\ req[w].resumed = "run"
        /\ req[w].request_state = "SEND"

\* The program points at which a thread is about to PTHREAD_MUTEX_LOCK
WaitPoints == {"r2s_enter", "s2r_enter", "dis_enter", "create_init",
               "create_nomem"}

\* The mutex is held by the threads inside a critical section and by no
\* other: not by a thread that has returned from state.c, is in the unlocked
\* part of state_entry_create, or has no request
HeldInside == \A w \in Workers : mutex = w <=> pc[w] \in LockedPoints

\* state_entry_create that fails to allocate takes the mutex again before it
\* returns, and the caller leaves it released
NomemRelocks(w) ==
    (pc[w] = "create_nomem" /\ pc'[w] # "create_nomem")
        => mutex = NULL /\ mutex' = NULL /\ result'[w] = "false"

\* C28: state_entry_create is entered and left with the mutex held (also
\* when it refuses the entry, fails to allocate, or fails to insert), and
\* fr_request_to_state, fr_state_to_request and fr_state_discard return with
\* the mutex released: the mutex is held exactly by the threads inside a
\* critical section, never by a thread outside state.c; and every thread
\* waiting for the mutex eventually gets it.
C28_MutexDiscipline ==
    /\ []HeldInside
    /\ [][\A w \in Workers : NomemRelocks(w)]_vars
    /\ \A w \in Workers : (pc[w] \in WaitPoints) ~> (pc[w] \notin WaitPoints)
    /\ \A w \in Workers : (mutex = w) ~> (mutex # w)

\* A save has failed to allocate and has returned false with the mutex
\* released while another thread is inside state.c
C28_Witness ==
    \E w \in Workers, o \in Workers :
        /\ w # o
        /\ pc[w] = "end" /\ result[w] = "false" /\ alloc_fails > 0
        /\ mutex = NULL
        /\ pc[o] \in WaitPoints

\* The local to-free list of the create of worker w, walked by next
ToFree(w) == ListFrom(loc[w].fh, Cardinality(EntryIds) + 1)

\* No entry appears twice in the sequence s
NoRepeat(s) == \A i \in 1..Len(s) : \A j \in 1..Len(s) : i # j => s[i] # s[j]

\* The critical section of the create of w leaves on its to-free list, once
\* each, the entries it took out of the rbtree
UnlinkedOnce(w) ==
    (pc[w] = "r2s_locked" /\ pc'[w] = "create_unlocked")
        => LET l == ToFree(w)'
           IN  /\ NoRepeat(l)
               /\ {l[i] : i \in 1..Len(l)} = tree \ tree'

\* The free loop of the create of w frees each entry of the to-free list
\* once and nothing else, without reading or freeing freed memory
FreedOnce(w) ==
    (pc[w] = "create_unlocked" /\ ~crashed)
        => /\ ~crashed'
           /\ pc'[w] # pc[w]
                => LET l == ToFree(w)
                   IN  \A e \in EntryIds :
                         released'[e]
                           = IF e \in {l[i] : i \in 1..Len(l)} THEN 1 ELSE released[e]

\* C29: in every call of state_entry_create, the expired entries and the
\* prior entry without request data are each unlinked once, are each once on
\* the to-free list, and are each freed exactly once by the free loop, also
\* when the prior entry has itself expired.
C29_ReleaseOnce ==
    [][\A w \in Workers : UnlinkedOnce(w) /\ FreedOnce(w)]_vars

=============================================================================
